---- MODULE Spec2Model ----
(***************************************************************************)
(* Wallet-authenticated session and credential lifecycle manager           *)
(* (marten-brelen/garminmcp).                                              *)
(*                                                                         *)
(*   - src/src/token_store.py     nonce store, token blob store            *)
(*   - src/src/wallet_verify.py   nonce-challenge request authenticator    *)
(*   - src/lib/garmin/auth.py     profile-scoped header authenticator      *)
(*   - src/src/garmin_auth.py     login state machine, pending-MFA table   *)
(*   - src/src/index.py           MCP tools                                *)
(*   - src/api/index.py           HTTP endpoints                           *)
(*   - src/lib/garmin/lens_verification.py, user_id.py   Lens lookups      *)
(*                                                                         *)
(* Texts (Python str values that travel in headers and messages) are       *)
(* records [s, t, pad]: s is the characters, t a number the text spells    *)
(* (a nonce serial, a wall-clock second), pad whether it carries           *)
(* surrounding whitespace.  str.lower() and str.strip() act on them.       *)
(***************************************************************************)
EXTENDS Integers, Sequences, FiniteSets, TLC

VARIABLES
    env,        \* process environment (os.getenv), fixed after start
    now,        \* wall clock, seconds
    nonces,     \* Redis keys auth:nonce:<addr>  -> entry or NoEntry
    nextNonce,  \* serial of the next value secrets.token_urlsafe returns
    req,        \* verify_wallet_headers calls in flight, per request slot
    okLog,      \* history: (addr, nonce) pairs accepted since addr's last issuance
    accepts,    \* history: how many calls returned (True, "ok") per nonce serial
    issued,     \* history: per address key, the serial issued last
    auth,       \* the verify_garmin_auth call: its input as observed, its result
    captured,   \* a request to verify_garmin_auth that someone on the wire kept
    tokens,     \* Redis keys garmin:tokens:<user_id> -> TokenBlob
    pending,    \* _PENDING_CREDS: user_id -> (email, password, expires_at)
    nextBlob,   \* serial of the next token set the external client gives out
    calls,      \* start_login / get_logged_in_client / resume_mfa_login calls
    hist,       \* history: per challenged user, the resumes without credentials
                \* since the last challenged start_login
    api,        \* the HTTP request an endpoint of api/index.py is serving
    rt,         \* a token directory on its way through zip_dir_to_b64 / b64_to_dir
    tool        \* the MCP tool call src/index.py is serving

wvars == <<env, now, nonces, nextNonce, req, okLog, accepts, issued>>

nvars == <<nonces, nextNonce, req, okLog, accepts, issued>>

hvars == <<auth, captured>>

svars == <<tokens, pending, nextBlob, calls, hist>>

xvars == <<api, rt, tool>>

vars == <<wvars, hvars, svars, xvars>>

----------------------------------------------------------------------------
(* Bounds of the model *)

MaxNonces == 2      \* nonce values issue_nonce hands out in one behaviour
MaxNow == 2         \* clock ticks in one behaviour
MaxBlobs == 2       \* token sets the external client gives out in one behaviour
MaxReplays == 2     \* times a captured request is sent again in one behaviour

(* Program constants *)

DefaultNonceTtl == 300     \* token_store.py: AUTH_NONCE_TTL_SECONDS default
DefaultMaxAge == 120       \* wallet_verify.py: AUTH_MAX_AGE_SECONDS default
FutureSkew == 30           \* wallet_verify.py: timedelta(seconds=30)
TIMESTAMP_TOLERANCE_MS == 300000   \* lib/garmin/auth.py: 5 * 60 * 1000
DefaultPendingTtl == 300   \* garmin_auth.py: AUTH_PENDING_TTL_SECONDS default
TokenTtl == 31536000       \* token_store.py: save_tokens ttl_seconds, 60 * 60 * 24 * 365

----------------------------------------------------------------------------
(* Texts *)

Str(x) == [s |-> x, t |-> 0, pad |-> FALSE]
Padded(x) == [x EXCEPT !.pad = TRUE]
EmptyText == Str("")

\* a header or a message field that is not there at all
Absent == Str("<absent>")

NonceText(i) == [s |-> "tok", t |-> i, pad |-> FALSE]
Iso(zone, wall) == [s |-> zone, t |-> wall, pad |-> FALSE]

\* str.lower() on the characters that occur
LowerStr(x) ==
    CASE x = "0xABC" -> "0xabc"
      [] x = "0xDEF" -> "0xdef"
      [] x = "Address" -> "address"
      [] x = "issuedAt" -> "issuedat"
      [] x = "Origin" -> "origin"
      [] x = "0xA1" -> "0xa1"
      [] x = "X-Medoxie-Address" -> "x-medoxie-address"
      [] x = "X-Medoxie-Profile-Id" -> "x-medoxie-profile-id"
      [] x = "X-Medoxie-Timestamp" -> "x-medoxie-timestamp"
      [] x = "X-Medoxie-Message" -> "x-medoxie-message"
      [] x = "X-Medoxie-Signature" -> "x-medoxie-signature"
      [] x = "U1" -> "u1"
      [] x = "Email" -> "email"
      [] x = "GarminConnect" -> "garminconnect"
      [] OTHER -> x

Lower(x) == [x EXCEPT !.s = LowerStr(x.s)]

\* str.strip()
Strip(x) == [x EXCEPT !.pad = FALSE]

\* truthiness of a str
Truthy(x) == x.s # "" \/ x.pad

----------------------------------------------------------------------------
(* Environment: os.getenv values.  A raw value is unset, a text that is    *)
(* no integer, or the decimal spelling of an integer.                      *)

Unset == [k |-> "unset", v |-> 0]
NotInt == [k |-> "text", v |-> 0]
IntRaw(n) == [k |-> "int", v |-> n]

Max(a, b) == IF a >= b THEN a ELSE b

\* max(1, int(raw)), the default on ValueError
EnvSeconds(raw, default) ==
    IF raw.k = "unset" THEN Max(1, default)
    ELSE IF raw.k = "text" THEN default
    ELSE Max(1, raw.v)

NonceTtlSeconds(e) == EnvSeconds(e.nonceTtl, DefaultNonceTtl)

MaxAgeSeconds(e) == EnvSeconds(e.maxAge, DefaultMaxAge)

\* {o.strip() for o in raw.split(",") if o.strip()}
AllowedOrigins(e) ==
    {Strip(e.origins[i]) : i \in {j \in DOMAIN e.origins : Truthy(Strip(e.origins[j]))}}

----------------------------------------------------------------------------
(* Messages.  A message is its lines and the separator between them: a     *)
(* real newline ("nl") or the two characters backslash-n ("esc") that a    *)
(* client puts in a header value.  A line is `key: value` or has no colon. *)

Line(k, v) == [colon |-> TRUE, key |-> k, value |-> v]
Plain(x) == [colon |-> FALSE, key |-> x, value |-> EmptyText]

\* message.replace("\\n", "\n")
Unescape(m) == [m EXCEPT !.sep = "nl"]

\* str.splitlines(): an escaped message is one line
SplitLines(m) ==
    IF m.sep = "nl" \/ Len(m.lines) <= 1 THEN m.lines
    ELSE IF \E i \in DOMAIN m.lines : m.lines[i].colon
         THEN <<Line(Str("joined"), Str("joined"))>>
         ELSE <<Plain(Str("joined"))>>

EmptyDict == [x \in {} |-> EmptyText]

Put(d, k, v) == [x \in (DOMAIN d) \cup {k} |-> IF x = k THEN v ELSE d[x]]

\* dict.get(k): None is as falsy as ""
DictGet(d, k) == IF k \in DOMAIN d THEN d[k] ELSE EmptyText

RECURSIVE ParseLines(_, _)
ParseLines(lines, fields) ==
    IF lines = <<>> THEN fields
    ELSE LET line == Head(lines)
             key == Lower(Strip(line.key))
             value == Strip(line.value)
         IN  IF ~line.colon \/ ~Truthy(key)
             THEN ParseLines(Tail(lines), fields)
             ELSE ParseLines(Tail(lines), Put(fields, key.s, value))

Required == <<"address", "nonce", "issuedat", "origin">>

\* _parse_message_fields: the fields, and the required keys that are missing
ParseMessageFields(message) ==
    LET fields == ParseLines(SplitLines(message), EmptyDict)
    IN  [fields |-> fields,
         missing |-> SelectSeq(Required, LAMBDA k : ~Truthy(DictGet(fields, k)))]

\* _parse_issued_at: the instant a text spells, or a ValueError
ZoneOffset(zone) == IF zone = "+01:00" THEN 3600 ELSE 0

ParseIssuedAt(raw) ==
    LET value == Strip(raw)
        zone == IF value.s = "Z" THEN "+00:00" ELSE value.s
    IN  IF zone \in {"+00:00", "+01:00", "naive"}
        THEN [ok |-> TRUE, t |-> value.t - ZoneOffset(zone)]
        ELSE [ok |-> FALSE, t |-> 0]

----------------------------------------------------------------------------
(* Signatures.  A well-formed signature is made by a signer over one       *)
(* message; recovery over any other message gives an unrelated address.    *)

BadSig == [valid |-> FALSE, signer |-> "", over |-> [sep |-> "nl", lines |-> <<>>]]
Sig(who, m) == [valid |-> TRUE, signer |-> who, over |-> m]

ChecksumAddress(who) ==
    IF who = "abc" THEN Str("0xABC") ELSE IF who = "def" THEN Str("0xDEF") ELSE Str("0x0ther")

\* Account.recover_message(encode_defunct(text=raw), signature=sig)
RecoverMessage(raw, sig) ==
    IF ~sig.valid THEN [ok |-> FALSE, addr |-> EmptyText]
    ELSE IF sig.over = raw THEN [ok |-> TRUE, addr |-> ChecksumAddress(sig.signer)]
    ELSE [ok |-> TRUE, addr |-> Str("0x0ther")]

----------------------------------------------------------------------------
(* verify_wallet_headers, up to the call of consume_nonce.  `evaluated`    *)
(* lists the checks the call went through, in order.                       *)

Rejected(reason, missing, evaluated) ==
    [pass |-> FALSE, reason |-> reason, missing |-> missing, evaluated |-> evaluated,
     addr |-> EmptyText, nonce |-> EmptyText]

Passed(ctx) ==
    [pass |-> TRUE, reason |-> "", missing |-> <<>>,
     evaluated |-> <<"fields", "address", "recover", "signer", "issuedat", "origin">>,
     addr |-> ctx.header_address, nonce |-> ctx.fields["nonce"]]

\* lines 89-91
CheckOrigin(ctx) ==
    LET allowed == AllowedOrigins(ctx.e) IN
    IF allowed # {} /\ ctx.fields["origin"] \notin allowed
    THEN Rejected("origin_not_allowed", <<>>,
                  <<"fields", "address", "recover", "signer", "issuedat", "origin">>)
    ELSE Passed(ctx)

\* a freshness test that also turns away a message aged exactly max-age
FreshnessReason_Inclusive(issued_at, t, max_age) ==
    IF issued_at >= t + FutureSkew THEN "issued_at_in_future"
    ELSE IF t - issued_at >= max_age THEN "issued_at_expired"
    ELSE ""

\* lines 84-88: the reason a parsed issuedAt is turned away for, "" if none
FreshnessReason(issued_at, t, max_age) ==
    IF issued_at > t + FutureSkew THEN "issued_at_in_future"
    ELSE IF t - issued_at > max_age THEN "issued_at_expired"
    ELSE ""

\* lines 79-88
CheckIssuedAt(ctx) ==
    LET issued_at == ParseIssuedAt(ctx.fields["issuedat"])
        stale == FreshnessReason(issued_at.t, ctx.t, MaxAgeSeconds(ctx.e))
    IN
    IF ~issued_at.ok
    THEN Rejected("invalid_issued_at", <<>>,
                  <<"fields", "address", "recover", "signer", "issuedat">>)
    ELSE IF stale # ""
    THEN Rejected(stale, <<>>, <<"fields", "address", "recover", "signer", "issuedat">>)
    ELSE CheckOrigin(ctx)

\* a verification that looks at issuedAt before it looks at the signature
CheckSignature_AfterIssuedAt(ctx) ==
    LET later == CheckIssuedAt(ctx)
        recovered == RecoverMessage(ctx.raw_message, ctx.signature)
    IN
    IF ~later.pass /\ later.evaluated[Len(later.evaluated)] = "issuedat"
    THEN later
    ELSE IF ~recovered.ok
    THEN Rejected("bad_signature", <<>>, <<"fields", "address", "recover">>)
    ELSE IF Lower(recovered.addr) # ctx.header_address
    THEN Rejected("signature_mismatch", <<>>, <<"fields", "address", "recover", "signer">>)
    ELSE later

\* lines 72-77
CheckSignature(ctx) ==
    LET recovered == RecoverMessage(ctx.raw_message, ctx.signature) IN
    IF ~recovered.ok
    THEN Rejected("bad_signature", <<>>, <<"fields", "address", "recover">>)
    ELSE IF Lower(recovered.addr) # ctx.header_address
    THEN Rejected("signature_mismatch", <<>>, <<"fields", "address", "recover", "signer">>)
    ELSE CheckIssuedAt(ctx)

\* a verification that does not compare the message's address with the header
CheckAddress_Skipped(ctx) == CheckSignature(ctx)

\* lines 67-70
CheckAddress(ctx) ==
    LET msg_address == Lower(ctx.fields["address"]) IN
    IF msg_address # ctx.header_address
    THEN Rejected("address_mismatch", <<>>, <<"fields", "address">>)
    ELSE CheckSignature(ctx)

PreChecks(address, message, signature, t, e) ==
    LET raw_message == message
        parsed_message == Unescape(message)
        parsed == ParseMessageFields(parsed_message)
    IN
    IF parsed.missing # <<>>
    THEN Rejected("missing_fields", parsed.missing, <<"fields">>)
    ELSE CheckAddress([header_address |-> Lower(address), fields |-> parsed.fields,
                       raw_message |-> raw_message, signature |-> signature,
                       t |-> t, e |-> e])

----------------------------------------------------------------------------
(* What a call's input looks like to an observer, check by check; kept     *)
(* with the call so that its result can be compared with its input.        *)

Observe(address, message, signature, t, e) ==
    LET fields == ParseMessageFields(Unescape(message)).fields
        field(k) == DictGet(fields, k)
        rec == RecoverMessage(message, signature)
        iss == ParseIssuedAt(field("issuedat"))
        allowed == AllowedOrigins(e)
    IN  [addr |-> Lower(address),
         nonce |-> field("nonce"),
         fieldsOk |-> \A i \in DOMAIN Required : Truthy(field(Required[i])),
         hasAddr |-> Truthy(field("address")),
         addrEq |-> Truthy(field("address")) /\ Lower(field("address")) = Lower(address),
         sigOk |-> rec.ok,
         signerEq |-> rec.ok /\ Lower(rec.addr) = Lower(address),
         issuedOk |-> Truthy(field("issuedat")) /\ iss.ok,
         age |-> IF iss.ok THEN t - iss.t ELSE 0,
         originOk |-> allowed = {} \/ (Truthy(field("origin")) /\ field("origin") \in allowed),
         maxAge |-> MaxAgeSeconds(e)]

NoObs ==
    [addr |-> EmptyText, nonce |-> EmptyText, fieldsOk |-> FALSE, hasAddr |-> FALSE,
     addrEq |-> FALSE, sigOk |-> FALSE, signerEq |-> FALSE, issuedOk |-> FALSE,
     age |-> 0, originOk |-> FALSE, maxAge |-> 0]

----------------------------------------------------------------------------
(* The nonce store: Redis keys auth:nonce:<addr> with an expiry.           *)

Procs == {"r1", "r2"}

Remove(d, k) == [x \in (DOMAIN d) \ {k} |-> d[x]]

\* a set that keeps the value of a key that exists (SET ... NX)
RedisSet_IfAbsent(store, key, value, ttl, t) ==
    IF key \in DOMAIN store THEN store
    ELSE Put(store, key, [value |-> value, exp |-> t + ttl])

\* r.set(key, value, ex=ttl)
RedisSet(store, key, value, ttl, t) == Put(store, key, [value |-> value, exp |-> t + ttl])

\* r.get(key): None (the empty text here) when the key is absent
RedisGet(store, key) == IF key \in DOMAIN store THEN store[key].value ELSE EmptyText

\* r.delete(key)
RedisDelete(store, key) == Remove(store, key)

\* Redis drops the keys whose time to live has run out
Expire(store, t) == [x \in {k \in DOMAIN store : store[k].exp > t} |-> store[x]]

\* consume_nonce, line 57: not (not existing or existing != nonce)
ConsumeNonceMatches(existing, nonce) == Truthy(existing) /\ existing = nonce

\* a consume_nonce that returns True and leaves the key in place
ConsumeNonceDelete_Skip(store, key) == store

\* consume_nonce, line 59
ConsumeNonceDelete(store, key) == RedisDelete(store, key)

IdleReq ==
    [pc |-> "idle", addr |-> EmptyText, nonce |-> EmptyText, reason |-> "",
     missing |-> <<>>, evaluated |-> <<>>, obs |-> NoObs, replay |-> FALSE,
     stale |-> FALSE]

\* a finished call: its result, and what was observed of its input (the nonce
\* text itself is no longer needed once the call is over)
Returned(reason, missing, evaluated, o, rp, st) ==
    [pc |-> "done", addr |-> o.addr, nonce |-> EmptyText, reason |-> reason,
     missing |-> missing, evaluated |-> evaluated,
     obs |-> [o EXCEPT !.nonce = EmptyText], replay |-> rp,
     stale |-> st]

\* issue_nonce(address): one SET; returns None without a store
IssueNonce(address) ==
    /\ nextNonce <= MaxNonces
    /\ IF ~env.redis
       THEN UNCHANGED <<nonces, nextNonce, okLog, issued, req>>
       ELSE LET nonce == NonceText(nextNonce)
                addr == Lower(address)
            IN  /\ nonces' = RedisSet(nonces, addr.s, nonce, NonceTtlSeconds(env), now)
                /\ nextNonce' = nextNonce + 1
                /\ issued' = Put(issued, addr.s, nextNonce)
                /\ okLog' = {x \in okLog : x[1] # addr.s}
                /\ req' = [p \in Procs |->
                             IF req[p].addr = addr THEN [req[p] EXCEPT !.replay = FALSE]
                             ELSE req[p]]
    /\ UNCHANGED <<env, now, accepts>>
    /\ UNCHANGED <<hvars, svars, xvars>>

\* verify_wallet_headers up to the GET of consume_nonce
VerifyStart(p, address, message, signature) ==
    /\ req[p].pc = "idle"
    /\ LET r == PreChecks(address, message, signature, now, env)
           o == Observe(address, message, signature, now, env)
           rp == <<o.addr.s, o.nonce>> \in okLog
           st == o.addr.s \in DOMAIN issued /\ o.nonce.t < issued[o.addr.s]
       IN  req' = [req EXCEPT ![p] =
                IF ~r.pass THEN Returned(r.reason, r.missing, r.evaluated, o, rp, st)
                ELSE IF ~env.redis
                THEN Returned("nonce_invalid", <<>>, Append(r.evaluated, "nonce"), o, rp, st)
                ELSE [pc |-> "get", addr |-> Lower(r.addr), nonce |-> r.nonce,
                      reason |-> "", missing |-> <<>>,
                      evaluated |-> Append(r.evaluated, "nonce"), obs |-> o, replay |-> rp,
                      stale |-> st]]
    /\ UNCHANGED <<env, now, nonces, nextNonce, okLog, accepts, issued>>
    /\ UNCHANGED <<hvars, svars, xvars>>

\* a consume_nonce that reads the key with GETDEL: the key is gone whatever
\* the comparison says
NonceGet_GetDel(p) ==
    /\ req[p].pc = "get"
    /\ LET existing == RedisGet(nonces, req[p].addr.s)
       IN  req' = [req EXCEPT ![p] =
                IF ConsumeNonceMatches(existing, req[p].nonce)
                THEN [req[p] EXCEPT !.pc = "delete"]
                ELSE Returned("nonce_invalid", <<>>, req[p].evaluated, req[p].obs,
                              req[p].replay, req[p].stale)]
    /\ nonces' = RedisDelete(nonces, req[p].addr.s)
    /\ UNCHANGED <<env, now, nextNonce, okLog, accepts, issued>>
    /\ UNCHANGED <<hvars, svars, xvars>>

\* consume_nonce: existing = await r.get(key), and the comparison
NonceGet(p) ==
    /\ req[p].pc = "get"
    /\ LET existing == RedisGet(nonces, req[p].addr.s)
       IN  req' = [req EXCEPT ![p] =
                IF ConsumeNonceMatches(existing, req[p].nonce)
                THEN [req[p] EXCEPT !.pc = "delete"]
                ELSE Returned("nonce_invalid", <<>>, req[p].evaluated, req[p].obs,
                              req[p].replay, req[p].stale)]
    /\ UNCHANGED <<env, now, nonces, nextNonce, okLog, accepts, issued>>
    /\ UNCHANGED <<hvars, svars, xvars>>

\* consume_nonce: await r.delete(key); return True; verify returns (True, "ok")
NonceDelete(p) ==
    /\ req[p].pc = "delete"
    /\ nonces' = ConsumeNonceDelete(nonces, req[p].addr.s)
    /\ req' = [req EXCEPT ![p] = Returned("ok", <<>>, req[p].evaluated, req[p].obs,
                                          req[p].replay, req[p].stale)]
    /\ okLog' = okLog \cup {<<req[p].addr.s, req[p].nonce>>}
    /\ accepts' = [accepts EXCEPT ![req[p].nonce.t] = @ + 1]
    /\ UNCHANGED <<env, now, nextNonce, issued>>
    /\ UNCHANGED <<hvars, svars, xvars>>

\* the caller has the result; the slot serves the next request
Respond(p) ==
    /\ req[p].pc = "done"
    /\ req' = [req EXCEPT ![p] = IdleReq]
    /\ UNCHANGED <<env, now, nonces, nextNonce, okLog, accepts, issued>>
    /\ UNCHANGED <<hvars, svars, xvars>>

\* a second passes; keys past their time to live are gone, nonces and token
\* blobs alike
Tick ==
    /\ now < MaxNow
    /\ now' = now + 1
    /\ nonces' = Expire(nonces, now + 1)
    /\ tokens' = Expire(tokens, now + 1)
    /\ UNCHANGED <<env, nextNonce, req, okLog, accepts, issued>>
    /\ UNCHANGED <<hvars, pending, nextBlob, calls, hist, xvars>>

----------------------------------------------------------------------------
(* The profile-scoped header authenticator, lib/garmin/auth.py.  A header  *)
(* value is a text; the message header is the base64 spelling of a text,   *)
(* of bytes that are no UTF-8, or no base64 at all.                        *)

NoMessage == [sep |-> "nl", lines |-> <<>>]

B64(m) == [s |-> "<base64>", t |-> 0, pad |-> FALSE, text |-> m]
B64Unpadded(m) == [s |-> "<base64 without =>", t |-> 0, pad |-> FALSE, text |-> m]
B64Binary == [s |-> "<base64 of bytes>", t |-> 0, pad |-> FALSE, text |-> NoMessage]
B64Malformed == [s |-> "<no base64>", t |-> 0, pad |-> FALSE, text |-> NoMessage]
EmptyEncoded == [s |-> "", t |-> 0, pad |-> FALSE, text |-> NoMessage]

\* the decimal spelling of an integer
Digits(n) == [s |-> "<digits>", t |-> n, pad |-> FALSE]

EmptySig == [valid |-> FALSE, signer |-> "<empty>", over |-> NoMessage]

Abs(x) == IF x < 0 THEN -x ELSE x

\* _tolerance_ms
ToleranceMs(e) ==
    IF e.tolerance.k = "int" THEN Max(1, e.tolerance.v) ELSE TIMESTAMP_TOLERANCE_MS

\* _normalize_headers: {k.lower(): v for k, v in headers.items()}
NormalizeHeaders(headers) ==
    [k \in {LowerStr(n) : n \in DOMAIN headers} |->
        headers[CHOOSE n \in DOMAIN headers : LowerStr(n) = k]]

\* normalized.get(k): None is as falsy as the empty value
HeaderGet(normalized, k, none) == IF k \in DOMAIN normalized THEN normalized[k] ELSE none

\* the header names whose value is None or empty, in the order of line 71
MissingHeaders(address, profile_id, timestamp, encoded_message, signature) ==
    (IF Truthy(address) THEN <<>> ELSE <<"x-medoxie-address">>)
    \o (IF Truthy(profile_id) THEN <<>> ELSE <<"x-medoxie-profile-id">>)
    \o (IF Truthy(timestamp) THEN <<>> ELSE <<"x-medoxie-timestamp">>)
    \o (IF Truthy(encoded_message) THEN <<>> ELSE <<"x-medoxie-message">>)
    \o (IF signature # EmptySig THEN <<>> ELSE <<"x-medoxie-signature">>)

\* _decode_message: strip, pad with "=", b64decode, decode("utf-8")
DecodeMessage(encoded_message) ==
    LET raw == Strip(encoded_message) IN
    IF raw.s = "<no base64>" THEN [ok |-> FALSE, text |-> NoMessage]
    ELSE IF raw.s = "<base64 of bytes>" THEN [ok |-> FALSE, text |-> NoMessage]
    ELSE [ok |-> TRUE, text |-> raw.text]

\* int(timestamp): surrounding whitespace is allowed
ParseInt(raw) ==
    IF Strip(raw).s = "<digits>" THEN [ok |-> TRUE, n |-> raw.t] ELSE [ok |-> FALSE, n |-> 0]

\* int(time.time() * 1000)
NowMs(t) == t * 1000

\* lines 98-104
ExpectedMessage(address, profile_id, timestamp, expected_path) ==
    [sep |-> "nl",
     lines |-> << Plain(Str("Medoxie Garmin API Access")),
                  Line(Str("address"), address),
                  Line(Str("profileId"), profile_id),
                  Line(Str("timestamp"), timestamp),
                  Line(Str("path"), expected_path) >>]

\* a comparison that leaves the path line out
MessageDiffers_PathIgnored(message, expected_message) ==
    \/ Len(message.lines) # Len(expected_message.lines)
    \/ SubSeq(message.lines, 1, 4) # SubSeq(expected_message.lines, 1, 4)

\* line 105
MessageDiffers(message, expected_message) == message # expected_message

\* a tolerance test that also turns away a difference equal to the tolerance
TimestampOutside_Inclusive(age, tolerance) == age >= tolerance

\* line 93
TimestampOutside(age, tolerance) == age > tolerance

NoPrincipal == [address |-> EmptyText, profileId |-> EmptyText, timestamp |-> 0,
                path |-> EmptyText]

Raise(error, missing) ==
    [ok |-> FALSE, error |-> error, missing |-> missing, principal |-> NoPrincipal]

\* verify_garmin_auth at wall-clock second t: the principal, or the error raised
VerifyGarminAuthResult(headers, expected_path, t, e) ==
    LET normalized == NormalizeHeaders(headers)
        address0 == HeaderGet(normalized, "x-medoxie-address", EmptyText)
        profile_id0 == HeaderGet(normalized, "x-medoxie-profile-id", EmptyText)
        timestamp == HeaderGet(normalized, "x-medoxie-timestamp", EmptyText)
        encoded_message == HeaderGet(normalized, "x-medoxie-message", EmptyEncoded)
        signature == HeaderGet(normalized, "x-medoxie-signature", EmptySig)
        missing == MissingHeaders(address0, profile_id0, timestamp, encoded_message, signature)
        address == Lower(address0)
        profile_id == Lower(profile_id0)
        message == DecodeMessage(encoded_message)
        timestamp_ms == ParseInt(timestamp)
        age == Abs(NowMs(t) - timestamp_ms.n)
        expected_message == ExpectedMessage(address, profile_id, timestamp, expected_path)
        recovered == RecoverMessage(message.text, signature)
    IN  IF missing # <<>> THEN Raise("MissingHeadersError", missing)
        ELSE IF ~message.ok THEN Raise("InvalidMessageError", <<>>)
        ELSE IF ~timestamp_ms.ok THEN Raise("InvalidTimestampError", <<>>)
        ELSE IF TimestampOutside(age, ToleranceMs(e)) THEN Raise("InvalidTimestampError", <<>>)
        ELSE IF MessageDiffers(message.text, expected_message)
        THEN Raise("InvalidMessageError", <<>>)
        ELSE IF ~recovered.ok THEN Raise("InvalidSignatureError", <<>>)
        ELSE IF Lower(recovered.addr) # address THEN Raise("InvalidSignatureError", <<>>)
        ELSE [ok |-> TRUE, error |-> "", missing |-> <<>>,
              principal |-> [address |-> address, profileId |-> profile_id,
                             timestamp |-> timestamp_ms.n, path |-> expected_path]]

\* the path a decoded message ends with, if it ends with a path line
NoPath == Str("<no path>")

PathOf(m) ==
    LET n == Len(m.lines) IN
    IF n > 0 /\ m.lines[n].colon /\ m.lines[n].key = Str("path")
    THEN m.lines[n].value ELSE NoPath

\* what a call's input looks like, header by header
ObserveAuth(a, p, ts, em, sg, expected_path, t, e) ==
    LET decodes == em.s \in {"", "<base64>", "<base64 without =>"} IN
    [present |-> /\ Truthy(a) /\ Truthy(p) /\ Truthy(ts) /\ Truthy(em)
                 /\ sg # EmptySig,
     decodes |-> decodes,
     tsInt |-> ts.s = "<digits>",
     diff |-> IF ts.s = "<digits>" THEN NowMs(t) - ts.t ELSE 0,
     tolerance |-> ToleranceMs(e),
     msgPath |-> IF decodes THEN PathOf(em.text) ELSE NoPath,
     path |-> expected_path,
     signed |-> /\ decodes /\ sg.valid /\ sg.over = em.text
                /\ Lower(ChecksumAddress(sg.signer)) = Lower(a)]

NoAuthObs ==
    [present |-> FALSE, decodes |-> FALSE, tsInt |-> FALSE, diff |-> 0,
     tolerance |-> 0, msgPath |-> NoPath, path |-> EmptyText, signed |-> FALSE]

IdleAuth == [pc |-> "idle", result |-> Raise("", <<>>), obs |-> NoAuthObs]

\* a request as it went over the wire, what verify_garmin_auth returned for
\* it, and how often it has been sent again
Captured(caps, a, p, ts, em, sg, expected_path, result, t) ==
    [held |-> TRUE, caps |-> caps, a |-> a, p |-> p, ts |-> ts, em |-> em, sg |-> sg,
     path |-> expected_path, result |-> result, at |-> t, replays |-> 0]

NoCapture ==
    [held |-> FALSE, caps |-> FALSE, a |-> EmptyText, p |-> EmptyText, ts |-> EmptyText,
     em |-> EmptyEncoded, sg |-> EmptySig, path |-> EmptyText,
     result |-> Raise("", <<>>), at |-> 0, replays |-> 0]

HeaderNames ==
    {"x-medoxie-address", "x-medoxie-profile-id", "x-medoxie-timestamp",
     "x-medoxie-message", "x-medoxie-signature"}

\* HTTP header names come in any case
Capitalized(k) ==
    CASE k = "x-medoxie-address" -> "X-Medoxie-Address"
      [] k = "x-medoxie-profile-id" -> "X-Medoxie-Profile-Id"
      [] k = "x-medoxie-timestamp" -> "X-Medoxie-Timestamp"
      [] k = "x-medoxie-message" -> "X-Medoxie-Message"
      [] k = "x-medoxie-signature" -> "X-Medoxie-Signature"

AbsentEncoded == [s |-> "<absent>", t |-> 0, pad |-> FALSE, text |-> NoMessage]
AbsentSig == [valid |-> FALSE, signer |-> "<absent>", over |-> NoMessage]

\* the headers of a request: a header whose value is absent is not sent
Headers(caps, a, p, ts, em, sg) ==
    LET sent == {k \in HeaderNames :
                    CASE k = "x-medoxie-address" -> a # Absent
                      [] k = "x-medoxie-profile-id" -> p # Absent
                      [] k = "x-medoxie-timestamp" -> ts # Absent
                      [] k = "x-medoxie-message" -> em # AbsentEncoded
                      [] k = "x-medoxie-signature" -> sg # AbsentSig}
    IN  [n \in {IF caps THEN Capitalized(k) ELSE k : k \in sent} |->
            CASE LowerStr(n) = "x-medoxie-address" -> a
              [] LowerStr(n) = "x-medoxie-profile-id" -> p
              [] LowerStr(n) = "x-medoxie-timestamp" -> ts
              [] LowerStr(n) = "x-medoxie-message" -> em
              [] LowerStr(n) = "x-medoxie-signature" -> sg]

\* an absent header is None to the code
Sent(x, none) == IF x.s = "<absent>" THEN none ELSE x

\* a verify_garmin_auth that takes a signed request once: it keeps the
\* address's last accepted timestamp in the store and turns a second use away
VerifyGarminAuth_SingleUse(caps, a, p, ts, em, sg, expected_path) ==
    /\ auth.pc = "idle"
    /\ LET result == VerifyGarminAuthResult(Headers(caps, a, p, ts, em, sg),
                                            expected_path, now, env)
           key == Lower(a).s
           seen == key \in DOMAIN nonces /\ nonces[key].value = ts
       IN  /\ auth' = [pc |-> "done",
                       result |-> IF result.ok /\ seen
                                  THEN Raise("InvalidSignatureError", <<>>)
                                  ELSE result,
                       obs |-> ObserveAuth(Sent(a, EmptyText), Sent(p, EmptyText),
                                           Sent(ts, EmptyText), Sent(em, EmptyEncoded),
                                           IF sg = AbsentSig THEN EmptySig ELSE sg,
                                           expected_path, now, env)]
           /\ nonces' = IF result.ok /\ ~seen
                         THEN RedisSet(nonces, key, ts, DefaultNonceTtl, now)
                         ELSE nonces
    /\ UNCHANGED <<env, now, nextNonce, req, okLog, accepts, issued, svars, xvars>>

\* verify_garmin_auth(headers, expected_path)
VerifyGarminAuth(caps, a, p, ts, em, sg, expected_path) ==
    /\ auth.pc = "idle"
    /\ auth' = [pc |-> "done",
                result |-> VerifyGarminAuthResult(Headers(caps, a, p, ts, em, sg),
                                                  expected_path, now, env),
                obs |-> ObserveAuth(Sent(a, EmptyText), Sent(p, EmptyText),
                                    Sent(ts, EmptyText), Sent(em, EmptyEncoded),
                                    IF sg = AbsentSig THEN EmptySig ELSE sg,
                                    expected_path, now, env)]
    /\ UNCHANGED <<env, now, nvars, svars, xvars>>

\* the caller has the principal or the error
AuthRespond ==
    /\ auth.pc = "done"
    /\ auth' = IdleAuth
    /\ UNCHANGED <<env, now, nvars, captured, svars, xvars>>

----------------------------------------------------------------------------
(* The login state machine, src/garmin_auth.py, over the token blob store  *)
(* of src/token_store.py.  A call runs without interruption between its    *)
(* awaits; it awaits the store in load_tokens and in save_tokens.  The     *)
(* external client answers a login with tokens, with an MFA challenge or   *)
(* with one of its exceptions.  A result is the parts of its message that  *)
(* "::" separates.                                                         *)

Users == {"u1"}

Clients == {"c1", "c2"}

\* a TokenBlob: the n-th token set the external client gave out, zipped; a
\* blob that is no zip archive cannot be unpacked
Blob(n) == [n |-> n, zip |-> TRUE]
CorruptBlob == [n |-> 0, zip |-> FALSE]
NoBlob == [n |-> -1, zip |-> FALSE]

LoginOutcomes ==
    {"ok", "needs_mfa", "GarminConnectAuthenticationError",
     "GarminConnectConnectionError", "GarthHTTPError", "Exception"}

ResumeOutcomes == LoginOutcomes \ {"needs_mfa"}

\* g.login() came back without an exception
Returns(outcome) == outcome \in {"ok", "needs_mfa"}

\* a test that never sees the MFA challenge
NeedsMfa_Never(result) == FALSE

\* lines 82 and 106: result[0] == "needs_mfa"
NeedsMfa(result) == result = "needs_mfa"

\* a single catch-all clause: every exception under one kind
WrapError_Generic(exc) == "UNKNOWN"

\* the except clauses of lines 89-96 and 113-120
WrapError(exc) ==
    CASE exc = "GarminConnectAuthenticationError" -> "AUTH_FAILED"
      [] exc = "GarminConnectConnectionError" -> "CONNECTION_FAILED"
      [] exc = "GarthHTTPError" -> "GARTH_HTTP_ERROR"
      [] OTHER -> "UNKNOWN"

\* _pending_ttl_seconds
PendingTtlSeconds(e) == EnvSeconds(e.pendingTtl, DefaultPendingTtl)

\* a table that keeps the entry a user already has (dict.setdefault)
SetPendingCreds_KeepFirst(table, user_id, email, password, t, e) ==
    IF user_id \in DOMAIN table THEN table
    ELSE Put(table, user_id,
             [email |-> email, password |-> password,
              expires_at |-> t + PendingTtlSeconds(e)])

\* _set_pending_creds
SetPendingCreds(table, user_id, email, password, t, e) ==
    Put(table, user_id,
        [email |-> email, password |-> password, expires_at |-> t + PendingTtlSeconds(e)])

NoCreds == [found |-> FALSE, email |-> EmptyText, password |-> EmptyText]

\* a pop that hands out the credentials and leaves the entry in the table
PopPendingCreds_Keeps(table, user_id, t) ==
    IF user_id \notin DOMAIN table THEN [creds |-> NoCreds, table |-> table]
    ELSE IF t > table[user_id].expires_at
    THEN [creds |-> NoCreds, table |-> Remove(table, user_id)]
    ELSE [creds |-> [found |-> TRUE, email |-> table[user_id].email,
                     password |-> table[user_id].password],
          table |-> table]

\* a pop that hands out an entry whatever its expiry time
PopPendingCreds_Unexpiring(table, user_id, t) ==
    IF user_id \notin DOMAIN table THEN [creds |-> NoCreds, table |-> table]
    ELSE [creds |-> [found |-> TRUE, email |-> table[user_id].email,
                     password |-> table[user_id].password],
          table |-> Remove(table, user_id)]

\* _pop_pending_creds: the credentials or None, and the table afterwards
PopPendingCreds(table, user_id, t) ==
    IF user_id \notin DOMAIN table THEN [creds |-> NoCreds, table |-> table]
    ELSE IF t > table[user_id].expires_at
    THEN [creds |-> NoCreds, table |-> Remove(table, user_id)]
    ELSE [creds |-> [found |-> TRUE, email |-> table[user_id].email,
                     password |-> table[user_id].password],
          table |-> Remove(table, user_id)]

\* load_tokens: None without a store or without the key
LoadTokens(store, user_id, e) ==
    IF e.redis /\ user_id \in DOMAIN store THEN store[user_id].value ELSE NoBlob

\* what a resume finds in the pending table
PendingState(table, user_id, t) ==
    IF user_id \notin DOMAIN table THEN "absent"
    ELSE IF t > table[user_id].expires_at THEN "expired"
    ELSE "live"

\* the email and password a client of the external library is built with
Given(email, password) == [email |-> email, password |-> password]

IdleCall ==
    [pc |-> "idle", op |-> "", user |-> "", email |-> EmptyText, password |-> EmptyText,
     blob |-> NoBlob, result |-> <<>>, mfa |-> FALSE, handshake |-> "", wrote |-> FALSE,
     noCreds |-> FALSE, pendingWas |-> "", nth |-> 0, used |-> Given(EmptyText, EmptyText),
     existing |-> "", restore |-> "", login |-> "", mfa_token |-> ""]

Call(op, user_id, email, password) ==
    [IdleCall EXCEPT !.op = op, !.user = user_id, !.email = email, !.password = password]

\* the call is over: what it returned or raised
Finished(c, result) ==
    [c EXCEPT !.pc = "done", !.result = result, !.email = EmptyText,
              !.password = EmptyText, !.blob = NoBlob]

\* g.garth.dump(token_dir); await save_tokens(user_id, zip_dir_to_b64(token_dir)):
\* a login that returns without handing its tokens to save_tokens
Persist_NoSave(c, n, e) == Finished(c, <<"ok">>)

\* without a store save_tokens returns at once
Persist(c, n, e) ==
    IF e.redis THEN [c EXCEPT !.pc = "save", !.blob = Blob(n)]
    ELSE Finished(c, <<"ok">>)

\* the MFA tokens the external client hands out with a challenge
MfaTokens == {"t1", "t2"}

\* what g.login() can answer: an outcome, and the token of a challenge
LoginAnswers ==
    { [outcome |-> o, token |-> t] :
        o \in LoginOutcomes \ {"needs_mfa"}, t \in {""} }
    \cup { [outcome |-> "needs_mfa", token |-> t] : t \in MfaTokens }

NoHistory == [resumed |-> EmptyDict, latest |-> EmptyDict]

\* start_login was challenged for the user: no resume has come since, and
\* these are the credentials of the user's latest challenged start_login
Challenged(h, user_id, email, password) ==
    [h EXCEPT !.resumed = Put(@, user_id, 0),
              !.latest = Put(@, user_id, Given(email, password))]

\* how many resumes without credentials the user has made since then, this
\* one included (2 stands for two or more, 0 for a user never challenged)
ResumeOrdinal(h, user_id) ==
    IF user_id \notin DOMAIN h.resumed THEN 0
    ELSE IF h.resumed[user_id] = 0 THEN 1 ELSE 2

CountResume(h, user_id) ==
    IF user_id \in DOMAIN h.resumed
    THEN [h EXCEPT !.resumed = Put(@, user_id, ResumeOrdinal(h, user_id))]
    ELSE h

\* the kind of thing load_tokens returned
BlobKind(existing) ==
    IF existing = NoBlob THEN "none" ELSE IF existing.zip THEN "zip" ELSE "corrupt"

\* start_login(user_id, email, password)
StartLogin(p, user_id, email, password) ==
    /\ calls[p].pc = "idle"
    /\ \E answer \in LoginAnswers :
         LET outcome == answer.outcome
             c == [Call("start_login", user_id, email, password)
                     EXCEPT !.mfa = (outcome = "needs_mfa"), !.login = outcome,
                            !.used = Given(email, password)]
         IN  IF ~Returns(outcome)
             THEN /\ calls' = [calls EXCEPT ![p] = Finished(c, <<WrapError(outcome)>>)]
                  /\ UNCHANGED <<pending, nextBlob, hist>>
             ELSE IF NeedsMfa(outcome)
             THEN /\ pending' = SetPendingCreds(pending, user_id, email, password, now, env)
                  /\ calls' = [calls EXCEPT ![p] =
                        Finished([c EXCEPT !.mfa_token = answer.token], <<"needs_mfa">>)]
                  /\ hist' = Challenged(hist, user_id, email, password)
                  /\ UNCHANGED nextBlob
             ELSE /\ nextBlob <= MaxBlobs
                  /\ nextBlob' = nextBlob + 1
                  /\ calls' = [calls EXCEPT ![p] = Persist(c, nextBlob, env)]
                  /\ UNCHANGED <<pending, hist>>
    /\ UNCHANGED <<env, now, nvars, hvars, tokens>>

\* get_logged_in_client once load_tokens has answered with `existing`:
\* unpack, token login, credential login
ClientLogin(p, c0, existing) ==
    LET c == [c0 EXCEPT !.existing = BlobKind(existing)] IN
    IF existing # NoBlob /\ ~existing.zip
    THEN \* b64_to_dir raises, outside any try
         /\ calls' = [calls EXCEPT ![p] =
                        Finished([c EXCEPT !.restore = "raised"], <<"BadZipFile">>)]
         /\ UNCHANGED nextBlob
    ELSE \E restored \in IF existing # NoBlob THEN BOOLEAN ELSE {FALSE} :
           IF restored
           THEN /\ calls' = [calls EXCEPT ![p] =
                               Finished([c EXCEPT !.restore = "ok"], <<"ok">>)]
                /\ UNCHANGED nextBlob
           ELSE IF c.noCreds
           THEN /\ calls' = [calls EXCEPT ![p] =
                               Finished([c EXCEPT !.restore = "rejected"],
                                        <<"NO_CREDENTIALS">>)]
                /\ UNCHANGED nextBlob
           ELSE \E answer \in LoginAnswers :
                  LET outcome == answer.outcome
                      d == [c EXCEPT !.restore = "rejected",
                                     !.mfa = (outcome = "needs_mfa"), !.login = outcome,
                                     !.used = Given(c.email, c.password)]
                  IN  IF ~Returns(outcome)
                      THEN /\ calls' = [calls EXCEPT ![p] =
                                          Finished(d, <<WrapError(outcome)>>)]
                           /\ UNCHANGED nextBlob
                      ELSE IF NeedsMfa(outcome)
                      THEN \* GarminAuthError("MFA_REQUIRED::t") is raised inside
                           \* the try and caught by `except Exception`
                           /\ calls' = [calls EXCEPT ![p] =
                                 Finished([d EXCEPT !.mfa_token = answer.token],
                                          <<WrapError("GarminAuthError"), "MFA_REQUIRED">>)]
                           /\ UNCHANGED nextBlob
                      ELSE /\ nextBlob <= MaxBlobs
                           /\ nextBlob' = nextBlob + 1
                           /\ calls' = [calls EXCEPT ![p] = Persist(d, nextBlob, env)]

\* get_logged_in_client(user_id, email, password) up to `await load_tokens`;
\* without a store load_tokens returns None at once
GetLoggedInClient(p, user_id, email, password) ==
    /\ calls[p].pc = "idle"
    /\ LET c == [Call("get_logged_in_client", user_id, email, password)
                   EXCEPT !.noCreds = ~Truthy(email) \/ ~Truthy(password)]
       IN  IF env.redis
           THEN /\ calls' = [calls EXCEPT ![p] = [c EXCEPT !.pc = "load"]]
                /\ UNCHANGED nextBlob
           ELSE ClientLogin(p, c, NoBlob)
    /\ UNCHANGED <<env, now, nvars, hvars, tokens, pending, hist>>

\* the store answers load_tokens, and the call runs on
ClientLoaded(p) ==
    /\ calls[p].pc = "load"
    /\ ClientLogin(p, calls[p], LoadTokens(tokens, calls[p].user, env))
    /\ UNCHANGED <<env, now, nvars, hvars, tokens, pending, hist>>

\* resume_mfa_login(user_id, mfa_token, mfa_code, email, password) up to
\* `await save_tokens`; an exception of the handshake is not caught
ResumeMfaLogin(p, user_id, email, password) ==
    /\ calls[p].pc = "idle"
    /\ LET no_creds == ~Truthy(email) \/ ~Truthy(password)
           popped == PopPendingCreds(pending, user_id, now)
           c == [Call("resume_mfa_login", user_id, email, password)
                   EXCEPT !.noCreds = no_creds,
                          !.pendingWas = IF no_creds
                                         THEN PendingState(pending, user_id, now)
                                         ELSE "unused",
                          !.nth = IF no_creds THEN ResumeOrdinal(hist, user_id) ELSE 0]
       IN  /\ pending' = IF no_creds THEN popped.table ELSE pending
           /\ hist' = IF no_creds THEN CountResume(hist, user_id) ELSE hist
           /\ IF no_creds /\ ~popped.creds.found
              THEN /\ calls' = [calls EXCEPT ![p] = Finished(c, <<"MFA_PENDING_EXPIRED">>)]
                   /\ UNCHANGED nextBlob
              ELSE \E outcome \in ResumeOutcomes :
                     LET d == [c EXCEPT !.handshake = outcome,
                                        !.used = IF no_creds
                                                 THEN Given(popped.creds.email,
                                                            popped.creds.password)
                                                 ELSE Given(email, password)]
                     IN  IF outcome = "ok"
                         THEN /\ nextBlob <= MaxBlobs
                              /\ nextBlob' = nextBlob + 1
                              /\ calls' = [calls EXCEPT ![p] = Persist(d, nextBlob, env)]
                         ELSE /\ calls' = [calls EXCEPT ![p] = Finished(d, <<outcome>>)]
                              /\ UNCHANGED nextBlob
    /\ UNCHANGED <<env, now, nvars, hvars, tokens>>

\* save_tokens with a key that leaves the user id out: every user's blob is
\* written to one key
SaveTokens_SharedKey(p) ==
    /\ calls[p].pc = "save"
    /\ tokens' = RedisSet(tokens, "u1", calls[p].blob, TokenTtl, now)
    /\ calls' = [calls EXCEPT ![p] =
                   [Finished(calls[p], <<"ok">>) EXCEPT !.wrote = TRUE,
                                                        !.blob = calls[p].blob]]
    /\ UNCHANGED <<env, now, nvars, hvars, pending, nextBlob, hist>>

\* save_tokens: r.set(key, b64zip, ex=ttl_seconds), and the call returns
SaveTokens(p) ==
    /\ calls[p].pc = "save"
    /\ tokens' = RedisSet(tokens, calls[p].user, calls[p].blob, TokenTtl, now)
    /\ calls' = [calls EXCEPT ![p] =
                   [Finished(calls[p], <<"ok">>) EXCEPT !.wrote = TRUE,
                                                        !.blob = calls[p].blob]]
    /\ UNCHANGED <<env, now, nvars, hvars, pending, nextBlob, hist>>

\* save_tokens: the store raises; start_login and get_logged_in_client wrap
\* the exception, resume_mfa_login lets it through
SaveTokensFails(p) ==
    /\ calls[p].pc = "save"
    /\ calls' = [calls EXCEPT ![p] =
                   Finished(calls[p], IF calls[p].op = "resume_mfa_login"
                                      THEN <<"Exception">>
                                      ELSE <<WrapError("Exception")>>)]
    /\ UNCHANGED <<env, now, nvars, hvars, tokens, pending, nextBlob, hist>>

\* the caller has the result; the slot serves the next call
CallRespond(p) ==
    /\ calls[p].pc = "done"
    /\ calls' = [calls EXCEPT ![p] = IdleCall]
    /\ UNCHANGED <<env, now, nvars, hvars, tokens, pending, nextBlob, hist>>

\* str(e) of the GarminAuthError a finished get_logged_in_client raised, as
\* its "::"-separated parts: the token of a challenge is the last part
ErrorMessage(c) == IF c.mfa THEN c.result \o <<c.mfa_token>> ELSE c.result

\* the kinds of message garmin_auth.py raises GarminAuthError with
GarminAuthErrors ==
    {"AUTH_FAILED", "CONNECTION_FAILED", "GARTH_HTTP_ERROR", "UNKNOWN",
     "MFA_REQUIRED", "NO_CREDENTIALS", "MFA_PENDING_EXPIRED"}

\* the finished call raised GarminAuthError
RaisedGarminAuthError(c) ==
    c.pc = "done" /\ Len(c.result) >= 1 /\ c.result[1] \in GarminAuthErrors

ToolResponse(status, mfa_token, message) ==
    [status |-> status, mfa_token |-> mfa_token, message |-> message]

\* the MCP tool garmin_auth_start, src/index.py, on the end of its
\* get_logged_in_client call c: another exception than GarminAuthError
\* passes through it
GarminAuthStart(c) ==
    IF c.result = <<"ok">> THEN ToolResponse("ok", "", <<>>)
    ELSE IF ~RaisedGarminAuthError(c) THEN ToolResponse("raised", "", c.result)
    ELSE LET msg == ErrorMessage(c)
         IN  IF Len(msg) >= 2 /\ msg[1] = "MFA_REQUIRED"
             THEN ToolResponse("needs_mfa", msg[2], <<>>)
             ELSE ToolResponse("error", "", msg)

\* the arguments of garmin_auth_finish
ToolArguments(user_id, email, password, mfa_token, mfa_code) ==
    [user_id |-> user_id, email |-> email, password |-> password,
     mfa_token |-> mfa_token, mfa_code |-> mfa_code]

\* resume_mfa_login(user_id, mfa_token, mfa_code, email, password) called as
\* resume_mfa_login(user_id, email, password, mfa_token, mfa_code): each
\* parameter takes the argument at its position
ResumeArguments(user_id, email, password, mfa_token, mfa_code) ==
    [user_id |-> user_id, mfa_token |-> email, mfa_code |-> password,
     email |-> mfa_token, password |-> mfa_code]

NoToolResponse == ToolResponse("", "", <<>>)

IdleTool ==
    [pc |-> "idle",
     given |-> ToolArguments("", EmptyText, EmptyText, EmptyText, EmptyText),
     passed |-> ToolArguments("", EmptyText, EmptyText, EmptyText, EmptyText),
     response |-> NoToolResponse]

\* what garmin_auth_finish returns on the end of its resume_mfa_login call
\* c: every exception becomes an error response
GarminAuthFinishResponse(c) ==
    IF c.result = <<"ok">> THEN ToolResponse("ok", "", <<>>)
    ELSE ToolResponse("error", "", c.result)

\* an HTTP response of api/index.py: status code, "status" of the JSON body,
\* message; an exception no handler catches leaves the endpoint as it is
HttpResponse(code, status, message) ==
    [code |-> code, status |-> status, message |-> message]

Uncaught(exc) == HttpResponse(500, "uncaught", exc)

\* /auth/finish, lines 153-157, on the end of its resume_mfa_login call c
AuthFinish(c) ==
    IF c.result = <<"ok">> THEN HttpResponse(200, "ok", <<>>)
    ELSE IF RaisedGarminAuthError(c) THEN HttpResponse(400, "error", c.result)
    ELSE Uncaught(c.result)

----------------------------------------------------------------------------
(* Token persistence, src/token_store.py: zip_dir_to_b64 and b64_to_dir.   *)
(* A path is the sequence of its components; a file system is a function   *)
(* from the absolute paths of its files to their contents.                 *)

\* os.path.join(root, rel)
Join(root, rel) == root \o rel

IsPrefix(a, b) == Len(a) <= Len(b) /\ SubSeq(b, 1, Len(a)) = a

\* the archive name that keeps the file's own name only
ArcName_Basename(full, path) == <<full[Len(full)]>>

\* os.path.relpath(full, path) of a file below path
ArcName(full, path) == SubSeq(full, Len(path) + 1, Len(full))

\* the files os.walk(path) comes by: every file below path
Walk(fs, path) == {full \in DOMAIN fs : IsPrefix(path, full) /\ Len(full) > Len(path)}

\* the orders os.walk can come by the files in (a superset: the listing
\* order of a directory is the file system's)
WalkOrders(files) ==
    {order \in [1..Cardinality(files) -> files] :
        \A i, j \in 1..Cardinality(files) : i # j => order[i] # order[j]}

\* z.write(full, rel) for each file: the entries of the archive
ZipWrite(fs, path, order) ==
    [i \in DOMAIN order |-> [name |-> ArcName(order[i], path), data |-> fs[order[i]]]]

\* base64.b64encode(bytes).decode("ascii"), and base64.b64decode of it
B64Encode(bytes) == [b64 |-> TRUE, bytes |-> bytes]
B64Decode(text) == text.bytes

\* zip_dir_to_b64(path), the walk taking the files in the given order
ZipDirToB64(fs, path, order) == B64Encode(ZipWrite(fs, path, order))

\* z.extractall(dest_path): entry after entry, a later entry of the same
\* name overwriting an earlier one
RECURSIVE ExtractAll(_, _, _)
ExtractAll(fs, entries, dest_path) ==
    IF entries = <<>> THEN fs
    ELSE LET e == Head(entries)
             target == Join(dest_path, e.name)
             written == [full \in DOMAIN fs \cup {target} |->
                            IF full = target THEN e.data ELSE fs[full]]
         IN  ExtractAll(written, Tail(entries), dest_path)

\* b64_to_dir(b64zip, dest_path)
B64ToDir(fs, b64zip, dest_path) == ExtractAll(fs, B64Decode(b64zip), dest_path)

\* g.garth.dump(path): the files of a working area (relative path ->
\* content), written below path
Dump(area, path) ==
    [full \in {Join(path, rel) : rel \in DOMAIN area} |->
        area[SubSeq(full, Len(path) + 1, Len(full))]]

\* two directories _mk_token_dir made
SourceDir == <<"tmp", "garmin_tokens_u1_a">>
DestDir == <<"tmp", "garmin_tokens_u1_b">>

NoFiles == [full \in {} |-> ""]

IdleRoundTrip ==
    [pc |-> "idle", fs |-> NoFiles, b64zip |-> B64Encode(<<>>), area |-> NoFiles]

\* zip_dir_to_b64(SourceDir)
ZipDir ==
    /\ rt.pc = "dumped"
    /\ \E order \in WalkOrders(Walk(rt.fs, SourceDir)) :
          rt' = [rt EXCEPT !.pc = "zipped",
                           !.b64zip = ZipDirToB64(rt.fs, SourceDir, order)]
    /\ UNCHANGED <<wvars, hvars, svars, api, tool>>

\* b64_to_dir(b64zip, DestDir)
UnzipDir ==
    /\ rt.pc = "zipped"
    /\ rt' = [rt EXCEPT !.pc = "restored", !.fs = B64ToDir(rt.fs, rt.b64zip, DestDir)]
    /\ UNCHANGED <<wvars, hvars, svars, api, tool>>

----------------------------------------------------------------------------
(* The HTTP endpoints of api/index.py.  Header authentication, the two     *)
(* Lens lookups and the start of the session function run without an       *)
(* await between them; the session function then awaits the store.         *)

\* the JSON object of an account: the address of its "account" object and
\* its "address" and "ownedBy" members (the empty text for one that is not
\* there), and the attributes of its metadata
LensData(account, address, ownedBy, attributes) ==
    [ok |-> TRUE, account |-> account, address |-> address, ownedBy |-> ownedBy,
     attributes |-> attributes]

\* None
NoLensData == [LensData(EmptyText, EmptyText, EmptyText, <<>>) EXCEPT !.ok = FALSE]

\* what GET {LENS_API_URL}/account comes to: requests.get raised (no
\* connection, timeout), or a response with a status code and a body that
\* is JSON for `data` or is not JSON
LensResponse(raised, status_code, json, data) ==
    [raised |-> raised, status_code |-> status_code, json |-> json, data |-> data]

\* a lookup that reads the body whatever the status code is
GetProfileData_AnyStatus(response) ==
    IF response.raised THEN NoLensData
    ELSE IF ~response.json THEN NoLensData
    ELSE response.data

\* _get_profile_data: the data, or None
GetProfileData(response) ==
    IF response.raised THEN NoLensData
    ELSE IF response.status_code # 200 THEN NoLensData
    ELSE IF ~response.json THEN NoLensData
    ELSE response.data

Attribute(key, value) == [key |-> key, value |-> value]

\* an ownership test that takes every profile for the wallet's
VerifyLensProfileOwnership_Always(wallet_address, data) == TRUE

\* verify_lens_profile_ownership from line 31 on, on the data
\* _get_profile_data returned
VerifyLensProfileOwnership(wallet_address, data) ==
    IF ~data.ok THEN FALSE
    ELSE LET profile_owner ==
                 IF Truthy(data.account) THEN data.account
                 ELSE IF Truthy(data.address) THEN data.address
                 ELSE data.ownedBy
         IN  IF ~Truthy(profile_owner) THEN FALSE
             ELSE Lower(profile_owner) = Lower(wallet_address)

EmailKeys == {"garminconnect", "garmin", "email", "emailaddress"}

\* _extract_email_from_metadata, for values that are no JSON objects: the
\* value of the first attribute with one of the keys and a value, or None
\* (the empty text here)
RECURSIVE ExtractEmailFromMetadata(_)
ExtractEmailFromMetadata(attributes) ==
    IF attributes = <<>> THEN EmptyText
    ELSE LET attr == Head(attributes) IN
         IF Lower(attr.key).s \in EmailKeys /\ Truthy(attr.value) THEN attr.value
         ELSE ExtractEmailFromMetadata(Tail(attributes))

\* resolve_user_id_from_profile, on the data _get_profile_data returned
ResolveUserIdFromProfile(data) ==
    IF ~data.ok THEN EmptyText ELSE ExtractEmailFromMetadata(data.attributes)

NoResponse == HttpResponse(0, "", <<>>)

\* what a request looked like: its headers as ObserveAuth sees them, the
\* two Lens responses, the email of the payload
NoApiObs ==
    [auth |-> NoAuthObs, address |-> EmptyText,
     own |-> LensResponse(TRUE, 0, FALSE, NoLensData),
     res |-> LensResponse(TRUE, 0, FALSE, NoLensData),
     email |-> EmptyText]

IdleApi == [pc |-> "idle", endpoint |-> "", obs |-> NoApiObs, response |-> NoResponse]

\* raise HTTPException / return: the request is answered
Answered(endpoint, obs, response) ==
    [pc |-> "done", endpoint |-> endpoint, obs |-> obs, response |-> response]

\* /auth/start, lines 129-132, on the end of its start_login call c
AuthStart(c) ==
    IF c.result = <<"ok">> THEN HttpResponse(200, "ok", <<>>)
    ELSE IF c.result = <<"needs_mfa">> THEN HttpResponse(200, "needs_mfa", <<c.mfa_token>>)
    ELSE IF RaisedGarminAuthError(c) THEN HttpResponse(400, "error", c.result)
    ELSE Uncaught(c.result)

\* /sleep and /activities, lines 184-196 and 223-234, on the end of their
\* get_logged_in_client call c: the data, or invalid_date
DataResponses(c) ==
    IF c.result = <<"ok">>
    THEN {HttpResponse(200, "data", <<>>), HttpResponse(400, "invalid_date", <<>>)}
    ELSE IF RaisedGarminAuthError(c) THEN {HttpResponse(401, "error", ErrorMessage(c))}
    ELSE {Uncaught(c.result)}

Endpoints == {"/auth/start", "/auth/finish", "/sleep", "/activities"}

\* auth_start, auth_finish, sleep_data, activities up to the first await of
\* the session function; headers a, prof, ts, em, sg, Lens responses own
\* and res, payload email and password
ApiRequest(p, endpoint, a, prof, ts, em, sg, own, res, email, password) ==
    /\ api.pc = "idle" /\ calls[p].pc = "idle"
    /\ LET auth_result == VerifyGarminAuthResult(Headers(FALSE, a, prof, ts, em, sg),
                                                 Str(endpoint), now, env)
           obs == [auth |-> ObserveAuth(Sent(a, EmptyText), Sent(prof, EmptyText),
                                        Sent(ts, EmptyText), Sent(em, EmptyEncoded),
                                        IF sg = AbsentSig THEN EmptySig ELSE sg,
                                        Str(endpoint), now, env),
                   address |-> a, own |-> own, res |-> res, email |-> email]
           user_id == ResolveUserIdFromProfile(GetProfileData(res))
       IN  IF ~auth_result.ok
           THEN /\ api' = Answered(endpoint, obs,
                                   HttpResponse(401, "unauthorized", <<auth_result.error>>))
                /\ UNCHANGED <<env, now, nvars, hvars, svars>>
           ELSE IF ~VerifyLensProfileOwnership(auth_result.principal.address,
                                               GetProfileData(own))
           THEN /\ api' = Answered(endpoint, obs,
                                   HttpResponse(403, "unauthorized", <<>>))
                /\ UNCHANGED <<env, now, nvars, hvars, svars>>
           ELSE IF ~Truthy(user_id)
           THEN /\ api' = Answered(endpoint, obs,
                                   HttpResponse(404, "user_not_found", <<>>))
                /\ UNCHANGED <<env, now, nvars, hvars, svars>>
           ELSE IF endpoint = "/auth/start" /\ Lower(email) # Lower(user_id)
           THEN /\ api' = Answered(endpoint, obs,
                                   HttpResponse(400, "invalid_request", <<>>))
                /\ UNCHANGED <<env, now, nvars, hvars, svars>>
           ELSE /\ api' = [pc |-> "session", endpoint |-> endpoint, obs |-> obs,
                           response |-> NoResponse]
                /\ CASE endpoint = "/auth/start" ->
                            StartLogin(p, user_id.s, email, password)
                     [] endpoint = "/auth/finish" ->
                            ResumeMfaLogin(p, user_id.s, EmptyText, EmptyText)
                     [] OTHER ->
                            GetLoggedInClient(p, user_id.s, EmptyText, EmptyText)
    /\ UNCHANGED <<rt, tool>>

\* the session function has returned or raised: the endpoint answers
ApiSessionEnds(p) ==
    /\ api.pc = "session" /\ calls[p].pc = "done"
    /\ \E response \in
            CASE api.endpoint = "/auth/start" -> {AuthStart(calls[p])}
              [] api.endpoint = "/auth/finish" -> {AuthFinish(calls[p])}
              [] OTHER -> DataResponses(calls[p]) :
          api' = Answered(api.endpoint, api.obs, response)
    /\ CallRespond(p)
    /\ UNCHANGED <<rt, tool>>

\* the client has the response
ApiRespond ==
    /\ api.pc = "done"
    /\ api' = IdleApi
    /\ UNCHANGED <<wvars, hvars, svars, rt, tool>>

\* no request and no tool call is being served, no directory is being
\* archived
NoTraffic == api = IdleApi /\ rt = IdleRoundTrip /\ tool = IdleTool

\* no session call is in flight and nothing is stored
NoSessions ==
    /\ tokens = EmptyDict
    /\ pending = EmptyDict
    /\ nextBlob = 1
    /\ calls = [p \in Clients |-> IdleCall]
    /\ hist = NoHistory

----------------------------------------------------------------------------
(* Requests a client can send *)

Title == Plain(Str("Sign in to Medoxie"))

Field(k, v) == IF v = Absent THEN <<>> ELSE <<Line(Str(k), v)>>

MessageOf(sep, aLines, n, i, o) ==
    [sep |-> sep,
     lines |-> <<Title>> \o aLines \o Field("nonce", n)
               \o Field("issuedAt", i) \o Field("origin", o)]

Message(sep, a, n, i, o) == MessageOf(sep, Field("address", a), n, i, o)

Origin1 == Str("https://app.example")
Origin2 == Str("https://evil.example")

Owner(address) == IF Lower(address) = Str("0xabc") THEN "abc" ELSE "def"

\* addresses nonces are issued for, and the one whose holder sends requests
NonceAddrs == {Str("0xABC"), Str("0xdef")}
ClientAddrs == {Str("0xABC")}

\* the requests of the nonce protocol: well-formed messages signed by the
\* address's key, written now or written at time 0 and sent (again) now
NonceRequests(t) ==
    { LET m == Message("esc", Lower(a), NonceText(n), Iso("Z", i), Origin1)
      IN  [address |-> a, message |-> m, signature |-> Sig(Owner(a), m)]
    : a \in ClientAddrs, n \in 1..MaxNonces, i \in {0, t} }

NonceEnvs ==
    { [maxAge |-> c, nonceTtl |-> c, origins |-> <<>>, redis |-> r,
        tolerance |-> Unset, pendingTtl |-> Unset] :
        c \in {Unset, IntRaw(1)}, r \in BOOLEAN }

----------------------------------------------------------------------------
(* The nonce protocol with concurrent requests *)

Init ==
    /\ env \in NonceEnvs
    /\ now = 0
    /\ nonces = EmptyDict
    /\ nextNonce = 1
    /\ req = [p \in Procs |-> IdleReq]
    /\ okLog = {}
    /\ accepts = [i \in 1..MaxNonces |-> 0]
    /\ issued = EmptyDict
    /\ auth = IdleAuth /\ captured = NoCapture
    /\ NoSessions
    /\ NoTraffic

Next ==
    \/ \E a \in NonceAddrs : IssueNonce(a)
    \/ \E p \in Procs :
          /\ req[p].pc = "idle"
          /\ \E r \in NonceRequests(now) :
                VerifyStart(p, r.address, r.message, r.signature)
    \/ \E p \in Procs : NonceGet(p)
    \/ \E p \in Procs : NonceDelete(p)
    \/ \E p \in Procs : Respond(p)
    \/ Tick

Spec == Init /\ [][Next]_vars

----------------------------------------------------------------------------
(* verify_wallet_headers over the inputs a client can build, one call at   *)
(* a time: every field present, absent, empty, padded or in another case,  *)
(* issuedAt around both freshness bounds, signatures of either key.        *)

\* the address lines of a message: none, an empty one, the header's address
\* in another case and padded, another address, and another address
\* followed by the right one (the later line wins)
AddressLines ==
    { <<>>,
      <<Line(Str("address"), EmptyText)>>,
      <<Line(Padded(Str("Address")), Padded(Str("0xABC")))>>,
      <<Line(Str("address"), Str("0xdef"))>>,
      <<Line(Str("address"), Str("0xdef")), Line(Str("address"), Str("0xabc"))>> }

IssuedAtTexts(t, e) ==
    { Absent, Str("yesterday"),
      Iso("Z", t - MaxAgeSeconds(e) - 1),
      Iso("naive", t - MaxAgeSeconds(e)),
      Padded(Iso("+01:00", t - MaxAgeSeconds(e) + 1 + 3600)),
      Iso("+00:00", t + FutureSkew),
      Iso("Z", t + FutureSkew + 1) }

WalletRequests(t, e) ==
    UNION { LET m == MessageOf(sep, al, n, i, o)
            IN  { [address |-> a, message |-> m, signature |-> sg] :
                    sg \in {BadSig, Sig("abc", m), Sig("def", m), Sig(Owner(a), Unescape(m))} }
          : a \in ClientAddrs,
            sep \in {"nl", "esc"},
            al \in AddressLines,
            n \in {Absent} \cup {NonceText(k) : k \in 1..MaxNonces},
            i \in IssuedAtTexts(t, e),
            o \in {Absent, Origin1, Origin2} }

WalletEnvs ==
    [maxAge : {Unset, NotInt, IntRaw(0), IntRaw(2)},
     nonceTtl : {Unset},
     origins : {<<>>, <<Padded(Origin1), EmptyText>>},
     redis : {TRUE},
     tolerance : {Unset},
     pendingTtl : {Unset}]

InitWallet ==
    /\ env \in WalletEnvs
    /\ now = 0
    /\ nonces = EmptyDict
    /\ nextNonce = 1
    /\ req = [p \in Procs |-> IdleReq]
    /\ okLog = {}
    /\ accepts = [i \in 1..MaxNonces |-> 0]
    /\ issued = EmptyDict
    /\ auth = IdleAuth /\ captured = NoCapture
    /\ NoSessions
    /\ NoTraffic

NextWallet ==
    \/ \E a \in ClientAddrs : IssueNonce(a)
    \/ /\ req["r1"].pc = "idle"
       /\ \E r \in WalletRequests(now, env) :
             VerifyStart("r1", r.address, r.message, r.signature)
    \/ NonceGet("r1")
    \/ NonceDelete("r1")
    \/ Respond("r1")

SpecWallet == InitWallet /\ [][NextWallet]_vars

----------------------------------------------------------------------------
(* verify_garmin_auth over the requests a client can build: each header    *)
(* present, absent or empty, names in either case, timestamps around both  *)
(* ends of the tolerance, messages for either path, signatures of either   *)
(* key.                                                                    *)

Paths == {Str("/sleep"), Str("/activities")}

HeaderAddrs == {Absent, EmptyText, Str("0xABC")}

HeaderProfiles == {Absent, Str("0xA1")}

TimestampTexts(t, e) ==
    { Absent, Str("soon"),
      Digits(NowMs(t)), Padded(Digits(NowMs(t))),
      Digits(NowMs(t) - ToleranceMs(e)), Digits(NowMs(t) - ToleranceMs(e) - 1),
      Digits(NowMs(t) + ToleranceMs(e)), Digits(NowMs(t) + ToleranceMs(e) + 1) }

\* the messages a client signs: the template for either path, one that
\* spells the address as the header does, one with the timestamp trimmed
SignedMessages(a, p, ts) ==
    { ExpectedMessage(Lower(a), Lower(p), ts, pm) : pm \in Paths }
    \cup { ExpectedMessage(a, Lower(p), ts, Str("/sleep")),
           ExpectedMessage(Lower(a), Lower(p), Strip(ts), Str("/sleep")) }

EncodedMessages(a, p, ts) ==
    { AbsentEncoded, B64Malformed, B64Binary, Padded(EmptyEncoded),
      Padded(B64Unpadded(ExpectedMessage(Lower(a), Lower(p), ts, Str("/sleep")))) }
    \cup { B64(m) : m \in SignedMessages(a, p, ts) }

Signatures(a, m) == {AbsentSig, BadSig, Sig(Owner(a), m), Sig("def", m)}

HeaderEnvs ==
    [maxAge : {Unset},
     nonceTtl : {Unset},
     origins : {<<>>},
     redis : {TRUE},
     tolerance : {Unset, NotInt, IntRaw(0), IntRaw(2000)},
     pendingTtl : {Unset}]

InitHeaders ==
    /\ env \in HeaderEnvs
    /\ now = 0
    /\ nonces = EmptyDict
    /\ nextNonce = 1
    /\ req = [p \in Procs |-> IdleReq]
    /\ okLog = {}
    /\ accepts = [i \in 1..MaxNonces |-> 0]
    /\ issued = EmptyDict
    /\ auth = IdleAuth /\ captured = NoCapture
    /\ NoSessions
    /\ NoTraffic

NextHeaders ==
    \/ /\ auth.pc = "idle"
       /\ \E caps \in BOOLEAN, a \in HeaderAddrs, p \in HeaderProfiles,
             expected_path \in Paths :
            \E ts \in TimestampTexts(now, env) :
              \E em \in EncodedMessages(a, p, ts) :
                \E sg \in Signatures(a, em.text) :
                    VerifyGarminAuth(caps, a, p, ts, em, sg, expected_path)
       /\ UNCHANGED captured
    \/ AuthRespond
    \/ Tick

SpecHeaders == InitHeaders /\ [][NextHeaders]_vars

----------------------------------------------------------------------------
(* verify_garmin_auth with someone on the wire who keeps a request and     *)
(* sends it again, at once or seconds later.                               *)

\* requests of the wallet's holder and of another signer, for either path,
\* with timestamps at and next to both ends of the tolerance
ReplayRequests(t, e) ==
    { [ts |-> ts, pm |-> pm, sg |-> who, path |-> expected_path] :
        ts \in { Digits(NowMs(t)), Digits(NowMs(t) - ToleranceMs(e)),
                 Digits(NowMs(t) - ToleranceMs(e) - 1),
                 Digits(NowMs(t) + ToleranceMs(e)) },
        pm \in Paths, who \in {"abc", "def"}, expected_path \in Paths }

ReplayEnvs ==
    [maxAge : {Unset},
     nonceTtl : {Unset},
     origins : {<<>>},
     redis : {TRUE},
     tolerance : {Unset, IntRaw(1000), IntRaw(2000)},
     pendingTtl : {Unset}]

InitReplay ==
    /\ env \in ReplayEnvs
    /\ now = 0
    /\ nonces = EmptyDict
    /\ nextNonce = 1
    /\ req = [p \in Procs |-> IdleReq]
    /\ okLog = {}
    /\ accepts = [i \in 1..MaxNonces |-> 0]
    /\ issued = EmptyDict
    /\ auth = IdleAuth /\ captured = NoCapture
    /\ NoSessions
    /\ NoTraffic

\* a client's request reaches verify_garmin_auth; someone may keep a copy
SendRequest ==
    /\ auth.pc = "idle"
    /\ \E r \in ReplayRequests(now, env), kept \in BOOLEAN :
         LET a == Str("0xABC")
             p == Str("0xA1")
             m == ExpectedMessage(Lower(a), Lower(p), r.ts, r.pm)
         IN  /\ VerifyGarminAuth(TRUE, a, p, r.ts, B64(m), Sig(r.sg, m), r.path)
             /\ captured' = IF kept /\ ~captured.held
                             THEN Captured(TRUE, a, p, r.ts, B64(m), Sig(r.sg, m), r.path,
                                           auth'.result, now)
                             ELSE captured

\* the copy is sent again, unchanged and to the same path
ReplayRequest ==
    /\ captured.held /\ captured.replays < MaxReplays
    /\ VerifyGarminAuth(captured.caps, captured.a, captured.p, captured.ts,
                        captured.em, captured.sg, captured.path)
    /\ captured' = [captured EXCEPT !.replays = @ + 1]

NextReplay ==
    \/ SendRequest
    \/ ReplayRequest
    \/ AuthRespond
    \/ Tick

SpecReplay == InitReplay /\ [][NextReplay]_vars

----------------------------------------------------------------------------
(* The login state machine with two callers *)

Email == Str("a@example.org")
OtherEmail == Str("b@example.org")
Password == Str("secret")

\* email and password as a caller gives them: both, the email alone, none
Credentials ==
    { [email |-> Email, password |-> Password],
      [email |-> OtherEmail, password |-> EmptyText],
      [email |-> EmptyText, password |-> EmptyText] }

SessionEnvs ==
    [maxAge : {Unset},
     nonceTtl : {Unset},
     origins : {<<>>},
     redis : BOOLEAN,
     tolerance : {Unset},
     pendingTtl : {Unset, IntRaw(0)}]

\* the blobs the store holds at the start: none, a token set of u1's from
\* an earlier run, or something that is no archive
StoredAtStart ==
    { EmptyDict,
      RedisSet(EmptyDict, "u1", Blob(0), TokenTtl, 0),
      RedisSet(EmptyDict, "u1", CorruptBlob, TokenTtl, 0) }

InitSession ==
    /\ env \in SessionEnvs
    /\ now = 0
    /\ nonces = EmptyDict
    /\ nextNonce = 1
    /\ req = [p \in Procs |-> IdleReq]
    /\ okLog = {}
    /\ accepts = [i \in 1..MaxNonces |-> 0]
    /\ issued = EmptyDict
    /\ auth = IdleAuth /\ captured = NoCapture
    /\ tokens \in IF env.redis THEN StoredAtStart ELSE {EmptyDict}
    /\ pending = EmptyDict
    /\ nextBlob = 1
    /\ calls = [p \in Clients |-> IdleCall]
    /\ hist = NoHistory
    /\ NoTraffic

NextSession ==
    \/ \E p \in Clients, u \in Users :
          StartLogin(p, u, Email, Password) /\ UNCHANGED xvars
    \/ \E p \in Clients, u \in Users, c \in Credentials :
          GetLoggedInClient(p, u, c.email, c.password) /\ UNCHANGED xvars
    \/ \E p \in Clients : ClientLoaded(p) /\ UNCHANGED xvars
    \/ \E p \in Clients, u \in Users, c \in Credentials :
          ResumeMfaLogin(p, u, c.email, c.password) /\ UNCHANGED xvars
    \/ \E p \in Clients : SaveTokens(p) /\ UNCHANGED xvars
    \/ \E p \in Clients : SaveTokensFails(p) /\ UNCHANGED xvars
    \/ \E p \in Clients : CallRespond(p) /\ UNCHANGED xvars
    \/ Tick

SpecSession == InitSession /\ [][NextSession]_vars

----------------------------------------------------------------------------
(* The MCP tool garmin_auth_finish, src/index.py.                          *)

\* garmin_auth_finish up to the first await of resume_mfa_login
GarminAuthFinish(p, user_id, email, password, mfa_token, mfa_code) ==
    /\ tool.pc = "idle"
    /\ LET passed == ResumeArguments(user_id, email, password, mfa_token, mfa_code)
       IN  /\ ResumeMfaLogin(p, passed.user_id, passed.email, passed.password)
           /\ tool' = [pc |-> "session",
                       given |-> ToolArguments(user_id, email, password,
                                               mfa_token, mfa_code),
                       passed |-> passed,
                       response |-> NoToolResponse]
    /\ UNCHANGED <<api, rt>>

\* resume_mfa_login has returned or raised: the tool returns
GarminAuthFinishEnds(p) ==
    /\ tool.pc = "session" /\ calls[p].pc = "done"
    /\ tool' = [tool EXCEPT !.pc = "done",
                            !.response = GarminAuthFinishResponse(calls[p])]
    /\ CallRespond(p)
    /\ UNCHANGED <<api, rt>>

\* the MCP client has the response
ToolRespond ==
    /\ tool.pc = "done"
    /\ tool' = IdleTool
    /\ UNCHANGED <<wvars, hvars, svars, api, rt>>

MfaCodes == {Str("123456"), EmptyText}

InitMcp ==
    /\ env \in {e \in SessionEnvs : e.pendingTtl = Unset}
    /\ now = 0
    /\ nonces = EmptyDict
    /\ nextNonce = 1
    /\ req = [p \in Procs |-> IdleReq]
    /\ okLog = {}
    /\ accepts = [i \in 1..MaxNonces |-> 0]
    /\ issued = EmptyDict
    /\ auth = IdleAuth /\ captured = NoCapture
    /\ tokens \in IF env.redis THEN StoredAtStart ELSE {EmptyDict}
    /\ pending = EmptyDict
    /\ nextBlob = 1
    /\ calls = [p \in Clients |-> IdleCall]
    /\ hist = NoHistory
    /\ NoTraffic

NextMcp ==
    \/ \E c \in Credentials, t \in {Str(x) : x \in MfaTokens}, code \in MfaCodes :
          GarminAuthFinish("c1", "u1", c.email, c.password, t, code)
    \/ SaveTokens("c1") /\ UNCHANGED xvars
    \/ SaveTokensFails("c1") /\ UNCHANGED xvars
    \/ GarminAuthFinishEnds("c1")
    \/ ToolRespond
    \/ Tick

SpecMcp == InitMcp /\ [][NextMcp]_vars

----------------------------------------------------------------------------
(* The login state machine with two users and one caller at a time, who    *)
(* logs in with either of two sets of credentials                          *)

AllUsers == {"u1", "u2"}

OtherPassword == Str("hunter2")

LoginCredentials == {Given(Email, Password), Given(OtherEmail, OtherPassword)}

\* nothing stored, or a token set of an earlier run for either user
StoredAtStartUsers ==
    { EmptyDict,
      RedisSet(RedisSet(EmptyDict, "u1", Blob(0), TokenTtl, 0), "u2", Blob(0), TokenTtl, 0) }

InitUsers ==
    /\ env \in {e \in SessionEnvs : e.redis /\ e.pendingTtl = Unset}
    /\ now = 0
    /\ nonces = EmptyDict
    /\ nextNonce = 1
    /\ req = [p \in Procs |-> IdleReq]
    /\ okLog = {}
    /\ accepts = [i \in 1..MaxNonces |-> 0]
    /\ issued = EmptyDict
    /\ auth = IdleAuth /\ captured = NoCapture
    /\ tokens \in StoredAtStartUsers
    /\ pending = EmptyDict
    /\ nextBlob = 1
    /\ calls = [p \in Clients |-> IdleCall]
    /\ hist = NoHistory
    /\ NoTraffic

NextUsers ==
    \/ \E u \in AllUsers, c \in LoginCredentials :
          StartLogin("c1", u, c.email, c.password) /\ UNCHANGED xvars
    \/ \E u \in AllUsers, c \in Credentials :
          GetLoggedInClient("c1", u, c.email, c.password) /\ UNCHANGED xvars
    \/ ClientLoaded("c1") /\ UNCHANGED xvars
    \/ \E u \in AllUsers, c \in Credentials :
          ResumeMfaLogin("c1", u, c.email, c.password) /\ UNCHANGED xvars
    \/ SaveTokens("c1") /\ UNCHANGED xvars
    \/ SaveTokensFails("c1") /\ UNCHANGED xvars
    \/ CallRespond("c1") /\ UNCHANGED xvars
    \/ Tick

SpecUsers == InitUsers /\ [][NextUsers]_vars

----------------------------------------------------------------------------
(* Token persistence over the working areas the external client can leave: *)
(* its two token files, and one more in a subdirectory                     *)

RelPaths ==
    {<<"oauth1_token.json">>, <<"oauth2_token.json">>, <<"d", "oauth1_token.json">>}

Contents == {"", "a", "b"}

Areas == UNION {[S -> Contents] : S \in SUBSET RelPaths}

InitZip ==
    /\ env \in {e \in SessionEnvs : e.redis /\ e.pendingTtl = Unset}
    /\ now = 0
    /\ nonces = EmptyDict
    /\ nextNonce = 1
    /\ req = [p \in Procs |-> IdleReq]
    /\ okLog = {}
    /\ accepts = [i \in 1..MaxNonces |-> 0]
    /\ issued = EmptyDict
    /\ auth = IdleAuth /\ captured = NoCapture
    /\ NoSessions
    /\ api = IdleApi /\ tool = IdleTool
    /\ rt \in {[IdleRoundTrip EXCEPT !.pc = "dumped", !.fs = Dump(a, SourceDir),
                                      !.area = a] : a \in Areas}

NextZip == ZipDir \/ UnzipDir

SpecZip == InitZip /\ [][NextZip]_vars

----------------------------------------------------------------------------
(* The endpoints serving one request at a time: requests of the wallet     *)
(* 0xABC for the profile 0xA1, signed by it or by another key, for this    *)
(* endpoint or for another, fresh or stale                                 *)

ApiAddress == Str("0xABC")
ApiProfile == Str("0xA1")

ApiMessage(ts, path) ==
    B64(ExpectedMessage(Lower(ApiAddress), Lower(ApiProfile), ts, Str(path)))

\* timestamp, message and signature headers of a request to the endpoint:
\* as they should be, or stale, or signed for another endpoint, or signed
\* by another key, or without a signature
ApiHeaders(endpoint, t, e) ==
    LET fresh == Digits(NowMs(t))
        stale == Digits(NowMs(t) - ToleranceMs(e) - 1)
        elsewhere == IF endpoint = "/sleep" THEN "/activities" ELSE "/sleep"
        Signed(ts, path, who) ==
            [ts |-> ts, em |-> ApiMessage(ts, path),
             sg |-> Sig(who, ApiMessage(ts, path).text)]
    IN  { Signed(fresh, endpoint, Owner(ApiAddress)),
          Signed(stale, endpoint, Owner(ApiAddress)),
          Signed(fresh, elsewhere, Owner(ApiAddress)),
          Signed(fresh, endpoint, "def"),
          [Signed(fresh, endpoint, "def") EXCEPT !.sg = AbsentSig] }

\* a response with the account's data
LensOk(data) == LensResponse(FALSE, 200, TRUE, data)

\* the first lookup, for the owner: no connection or a timeout; status 404;
\* status 200 with a body that is no JSON; the wallet in account.address;
\* the wallet, in capitals, in ownedBy alone; another wallet in
\* account.address and the wallet in address; no owner
OwnerAnswers ==
    { LensResponse(TRUE, 0, FALSE, NoLensData),
      LensResponse(FALSE, 404, TRUE, LensData(Str("0xabc"), EmptyText, EmptyText, <<>>)),
      LensResponse(FALSE, 200, FALSE, NoLensData),
      LensOk(LensData(Str("0xabc"), EmptyText, EmptyText, <<>>)),
      LensOk(LensData(EmptyText, EmptyText, Str("0xABC"), <<>>)),
      LensOk(LensData(Str("0xDEF"), Str("0xABC"), EmptyText, <<>>)),
      LensOk(LensData(EmptyText, EmptyText, EmptyText, <<>>)) }

\* the second lookup, for the user id: status 500; the Garmin email after
\* an attribute without a value; the Garmin email under another key;
\* no email
EmailAnswers ==
    { LensResponse(FALSE, 500, TRUE, NoLensData),
      LensOk(LensData(Str("0xabc"), EmptyText, EmptyText,
                      <<Attribute(Str("Email"), EmptyText),
                        Attribute(Str("garmin"), Str("u1"))>>)),
      LensOk(LensData(Str("0xabc"), EmptyText, EmptyText,
                      <<Attribute(Str("GarminConnect"), Str("u1"))>>)),
      LensOk(LensData(Str("0xabc"), EmptyText, EmptyText,
                      <<Attribute(Str("app"), Str("x"))>>)) }

\* the email of the payload; only /auth/start has one
PayloadEmails(endpoint) ==
    IF endpoint = "/auth/start" THEN {Str("u1"), Str("U1"), Str("other")}
    ELSE {EmptyText}

InitApi ==
    /\ env \in {e \in SessionEnvs : e.redis /\ e.pendingTtl = Unset}
    /\ now = 0
    /\ nonces = EmptyDict
    /\ nextNonce = 1
    /\ req = [p \in Procs |-> IdleReq]
    /\ okLog = {}
    /\ accepts = [i \in 1..MaxNonces |-> 0]
    /\ issued = EmptyDict
    /\ auth = IdleAuth /\ captured = NoCapture
    /\ tokens \in StoredAtStart
    /\ pending = EmptyDict
    /\ nextBlob = 1
    /\ calls = [p \in Clients |-> IdleCall]
    /\ hist = NoHistory
    /\ NoTraffic

NextApi ==
    \/ /\ api.pc = "idle"
       /\ \E endpoint \in Endpoints, own \in OwnerAnswers, res \in EmailAnswers :
            \E h \in ApiHeaders(endpoint, now, env), email \in PayloadEmails(endpoint) :
                ApiRequest("c1", endpoint, ApiAddress, ApiProfile, h.ts, h.em, h.sg,
                           own, res, email, Password)
    \/ ClientLoaded("c1") /\ UNCHANGED xvars
    \/ SaveTokens("c1") /\ UNCHANGED xvars
    \/ SaveTokensFails("c1") /\ UNCHANGED xvars
    \/ ApiSessionEnds("c1")
    \/ ApiRespond
    \/ Tick

SpecApi == InitApi /\ [][NextApi]_vars

----------------------------------------------------------------------------
(* Claims about the nonce protocol *)

\* the input passes every check that precedes nonce consumption
PassesEarlier(o) ==
    /\ o.fieldsOk /\ o.addrEq /\ o.sigOk /\ o.signerEq /\ o.issuedOk
    /\ o.age >= -FutureSkew /\ o.age <= o.maxAge
    /\ o.originOk

\* C1 as stated: every call made after verify_wallet_headers returned
\* (True, "ok") for the same address and nonce, with no issuance for the
\* address in between, fails with reason "nonce_invalid".
C1_ReplayNonceInvalid ==
    \A p \in Procs :
        (req[p].pc = "done" /\ req[p].replay) => req[p].reason = "nonce_invalid"

\* C1 amended: such a later call never returns (True, "ok") and never gets
\* to delete the key; its reason is "nonce_invalid" whenever its input
\* passes the checks that precede nonce consumption at the time it is made.
C1_ReplayFails ==
    \A p \in Procs :
        req[p].replay =>
            /\ req[p].pc # "delete"
            /\ req[p].pc = "done" =>
                 /\ req[p].reason # "ok"
                 /\ PassesEarlier(req[p].obs) => req[p].reason = "nonce_invalid"

C1_Witness ==
    \E p \in Procs :
        /\ req[p].pc = "done" /\ req[p].replay
        /\ PassesEarlier(req[p].obs) /\ req[p].reason = "nonce_invalid"

\* C2: of the calls that consume one issued nonce value, concurrent ones
\* included, at most one returns True.
C2_AtMostOneAccept == \A i \in 1..MaxNonces : accepts[i] <= 1

\* C6: a call made for a nonce that a newer issuance for the address has
\* replaced fails, and the nonce stored for an address goes away only by a
\* successful consumption of that very value, by a newer issuance for the
\* address, or by the expiry of its time to live.
C6_StaleFails ==
    \A p \in Procs : (req[p].pc = "done" /\ req[p].stale) => req[p].reason # "ok"

C6_RemovedOnlyBy ==
    \A k \in DOMAIN nonces :
        (k \notin DOMAIN nonces' \/ nonces'[k] # nonces[k]) =>
            \/ \E a \in NonceAddrs : Lower(a).s = k /\ IssueNonce(a)
            \/ Tick /\ nonces[k].exp <= now'
            \/ \E p \in Procs :
                  NonceDelete(p) /\ req[p].addr.s = k /\ req[p].nonce = nonces[k].value

\* C6, both parts: the superseded nonce fails, and the stored nonce of an
\* address is removed by nothing but its own consumption, a newer issuance
\* or its expiry.
C6_NonceLifecycle == [](C6_StaleFails) /\ [][C6_RemovedOnlyBy]_vars

----------------------------------------------------------------------------
(* Claims about the checks of verify_wallet_headers *)

\* the order the claim gives, and the reasons each check can give
CheckOrder == <<"fields", "address", "recover", "signer", "issuedat", "origin", "nonce">>

ReasonsOf(check) ==
    CASE check = "fields" -> {"missing_fields"}
      [] check = "address" -> {"address_mismatch"}
      [] check = "recover" -> {"bad_signature"}
      [] check = "signer" -> {"signature_mismatch"}
      [] check = "issuedat" -> {"invalid_issued_at", "issued_at_in_future", "issued_at_expired"}
      [] check = "origin" -> {"origin_not_allowed"}
      [] check = "nonce" -> {"nonce_invalid", "ok"}

\* whether the observed input fails a check, taken by itself
Fails(o, check) ==
    CASE check = "fields" -> ~o.fieldsOk
      [] check = "address" -> ~o.addrEq
      [] check = "recover" -> ~o.sigOk
      [] check = "signer" -> ~o.signerEq
      [] check = "issuedat" -> ~o.issuedOk \/ o.age < -FutureSkew \/ o.age > o.maxAge
      [] check = "origin" -> ~o.originOk
      [] check = "nonce" -> FALSE

\* the place in CheckOrder of the earliest check the input fails; the nonce
\* check, whose outcome depends on the store, comes last
FirstFailing(o) ==
    LET failing == {k \in 1..6 : Fails(o, CheckOrder[k])}
    IN  IF failing = {} THEN 7
        ELSE CHOOSE k \in failing : \A j \in failing : k <= j

\* C3: a finished call went through the checks in the order fields, address,
\* signature recovery, signer, issuedAt, origin, nonce, up to and including
\* the earliest one its input fails and no further, and its reason is that
\* check's; a call that reaches the nonce store passed all the others, and
\* (True, "ok") is returned only then.
C3_EarliestFailingCheck ==
    \A p \in Procs :
        /\ req[p].pc = "done" =>
             LET k == FirstFailing(req[p].obs)
             IN  /\ req[p].reason \in ReasonsOf(CheckOrder[k])
                 /\ req[p].evaluated = SubSeq(CheckOrder, 1, k)
        /\ req[p].pc \in {"get", "delete"} => FirstFailing(req[p].obs) = 7

\* a call whose signature does not recover and whose issuedAt is too old as
\* well: the signature, the earlier check, gives the reason
C3_Witness ==
    \E p \in Procs :
        /\ req[p].pc = "done"
        /\ req[p].obs.fieldsOk /\ req[p].obs.addrEq
        /\ ~req[p].obs.sigOk
        /\ req[p].obs.issuedOk /\ req[p].obs.age > req[p].obs.maxAge
        /\ req[p].reason = "bad_signature"

\* C4 as stated: a message whose address field differs from the header
\* address fails with address_mismatch whatever else the message holds.
C4_AddressMismatchAlways ==
    \A p \in Procs :
        (req[p].pc = "done" /\ req[p].obs.hasAddr /\ ~req[p].obs.addrEq)
            => req[p].reason = "address_mismatch"

\* C4 amended: a message that has all four required fields and whose address
\* field differs from the header address fails with address_mismatch,
\* whatever the signature and the values of the other fields.
C4_AddressMismatch ==
    \A p \in Procs :
        (req[p].pc = "done" /\ req[p].obs.fieldsOk /\ ~req[p].obs.addrEq)
            => req[p].reason = "address_mismatch"

\* the header's own key signed a message that names another address
C4_Witness ==
    \E p \in Procs :
        /\ req[p].pc = "done"
        /\ req[p].obs.fieldsOk /\ ~req[p].obs.addrEq /\ req[p].obs.signerEq
        /\ req[p].reason = "address_mismatch"

\* C5: a call that passes the checks before freshness is rejected with
\* issued_at_in_future exactly when issuedAt is more than 30 s after now and
\* with issued_at_expired exactly when now - issuedAt exceeds the max-age of
\* _max_age_seconds; at max-age and at max-age - 1 it is not rejected for
\* freshness.
C5_Freshness ==
    \A p \in Procs :
        LET o == req[p].obs
        IN  (req[p].pc = "done" /\ o.fieldsOk /\ o.addrEq /\ o.sigOk /\ o.signerEq
                /\ o.issuedOk)
            => /\ req[p].reason = "issued_at_in_future" <=> o.age < -FutureSkew
               /\ req[p].reason = "issued_at_expired" <=> o.age > o.maxAge
               /\ o.age \in {o.maxAge, o.maxAge - 1}
                    => req[p].reason \in {"origin_not_allowed", "nonce_invalid", "ok"}

\* a message aged exactly the default max-age goes on to the later checks
C5_Witness ==
    \E p \in Procs :
        /\ req[p].pc = "done"
        /\ env.maxAge = Unset
        /\ req[p].obs.age = DefaultMaxAge
        /\ req[p].reason = "ok"

----------------------------------------------------------------------------
(* Claims about verify_garmin_auth *)

\* the call's decoded message ends with a path other than the expected one
PathChanged(o) == o.msgPath # NoPath /\ o.msgPath # o.path

\* the timestamp header is an integer within the tolerance of now, either way
WithinTolerance(o) == o.tsInt /\ o.diff <= o.tolerance /\ -o.diff <= o.tolerance

\* C7 as stated: a call with the five headers whose decoded message embeds
\* a path other than expected_path fails with InvalidMessageError.
C7_PathChangeInvalidMessage ==
    (auth.pc = "done" /\ auth.obs.present /\ PathChanged(auth.obs))
        => (~auth.result.ok /\ auth.result.error = "InvalidMessageError")

\* C7 amended: such a call never returns a principal, and the error is
\* InvalidMessageError whenever the five headers are given and the timestamp
\* is an integer within tolerance, also when the signature is valid for the
\* message.
C7_PathChangeFails ==
    (auth.pc = "done" /\ PathChanged(auth.obs))
        => /\ ~auth.result.ok
           /\ auth.result.principal = NoPrincipal
           /\ (auth.obs.present /\ WithinTolerance(auth.obs))
                => auth.result.error = "InvalidMessageError"

\* a message signed by the address's key for the other path, sent in time
C7_Witness ==
    /\ auth.pc = "done"
    /\ PathChanged(auth.obs)
    /\ auth.obs.present /\ auth.obs.signed /\ WithinTolerance(auth.obs)
    /\ auth.result.error = "InvalidMessageError"

\* C8 as stated: a call with the five headers raises InvalidTimestampError
\* when the timestamp header is no integer or differs from now by more than
\* the tolerance, to the past or to the future; a difference equal to the
\* tolerance is not rejected for the timestamp.
C8_TimestampError ==
    auth.pc = "done" =>
        /\ (auth.obs.present /\ ~WithinTolerance(auth.obs))
              => auth.result.error = "InvalidTimestampError"
        /\ WithinTolerance(auth.obs) => auth.result.error # "InvalidTimestampError"

\* C8 amended: the same for a call whose message header decodes as well.
C8_TimestampErrorAfterDecode ==
    auth.pc = "done" =>
        /\ (auth.obs.present /\ auth.obs.decodes /\ ~WithinTolerance(auth.obs))
              => auth.result.error = "InvalidTimestampError"
        /\ WithinTolerance(auth.obs) => auth.result.error # "InvalidTimestampError"

\* a timestamp ahead of now by exactly the default tolerance is accepted
C8_Witness ==
    /\ auth.pc = "done"
    /\ env.tolerance = Unset
    /\ auth.obs.tsInt /\ auth.obs.diff = -TIMESTAMP_TOLERANCE_MS
    /\ auth.result.ok

----------------------------------------------------------------------------
(* Claims about the login state machine *)

\* the blob stored for user u, NoBlob if none
Stored(store, u) == IF u \in DOMAIN store THEN store[u].value ELSE NoBlob

\* a call that the external client answered with an MFA challenge does not
\* get to save_tokens, and ends with the challenge as its result
C9_ChallengeNeverSaves ==
    \A p \in Clients :
        calls[p].mfa =>
            /\ calls[p].op \in {"start_login", "get_logged_in_client"}
            /\ calls[p].pc = "done" /\ ~calls[p].wrote
            /\ calls[p].result \in {<<"needs_mfa">>, <<"UNKNOWN", "MFA_REQUIRED">>}

\* a step in which a call learns of the MFA challenge leaves every blob as it
\* is, and a step that changes the blob of a user is the save_tokens of a
\* call for that user whose login was not challenged and, for a resume,
\* whose handshake succeeded
C9_WrittenOnlyBy ==
    /\ \A p \in Clients : (calls'[p].mfa /\ ~calls[p].mfa) => tokens' = tokens
    /\ \A u \in Users :
          Stored(tokens', u) # Stored(tokens, u) =>
              \E p \in Clients :
                  /\ calls[p].pc = "save" /\ calls[p].user = u /\ ~calls[p].mfa
                  /\ calls[p].op = "resume_mfa_login" => calls[p].handshake = "ok"
                  /\ calls'[p].pc = "done" /\ calls'[p].wrote
                  /\ Stored(tokens', u) = calls[p].blob

\* C9: a credential login that yields an MFA challenge, in start_login and
\* in get_logged_in_client, never writes a TokenBlob, the stored blob is the
\* same after it as before; in the MFA flow the blob is written only by a
\* successful resume_mfa_login.
C9_ChallengeWritesNoBlob == [](C9_ChallengeNeverSaves) /\ [][C9_WrittenOnlyBy]_vars

\* start_login was challenged: the blob stored before is still there, and
\* the credentials are pending
C9_Witness ==
    \E p \in Clients :
        /\ calls[p].pc = "done" /\ calls[p].op = "start_login" /\ calls[p].mfa
        /\ calls[p].result = <<"needs_mfa">>
        /\ calls[p].user \in DOMAIN pending
        /\ Stored(tokens, calls[p].user) = Blob(0)

\* a finished resume that was given no credentials and found the entry
\* absent or expired
C10_FailedResume ==
    \A p \in Clients :
        (/\ calls[p].pc \in {"save", "done"} /\ calls[p].op = "resume_mfa_login"
         /\ calls[p].noCreds /\ calls[p].pendingWas \in {"absent", "expired"})
        => /\ calls[p].pc = "done"
           /\ calls[p].result = <<"MFA_PENDING_EXPIRED">>
           /\ calls[p].handshake = "" /\ ~calls[p].wrote

\* the step of such a resume: it fails at once, and afterwards the table has
\* no entry for the user, no token set was asked for, no blob has changed
C10_ResumeStep ==
    \A p \in Clients, u \in Users :
        (/\ calls[p].pc = "idle" /\ calls'[p].pc # "idle"
         /\ calls'[p].op = "resume_mfa_login" /\ calls'[p].user = u /\ calls'[p].noCreds
         /\ (u \notin DOMAIN pending \/ now > pending[u].expires_at))
        => /\ calls'[p].pc = "done"
           /\ calls'[p].result = <<"MFA_PENDING_EXPIRED">>
           /\ calls'[p].handshake = ""
           /\ u \notin DOMAIN pending'
           /\ tokens' = tokens /\ nextBlob' = nextBlob

\* C10: resume_mfa_login without email/password for a user whose pending
\* entry is absent or has passed its expiry time fails with
\* MFA_PENDING_EXPIRED; the external resume handshake is not called, no
\* TokenBlob is written, and an expired entry is removed from the table and
\* never returned.
C10_PendingExpired == [](C10_FailedResume) /\ [][C10_ResumeStep]_vars

\* a resume that came after the entry's expiry time, and the entry is gone
C10_Witness ==
    \E p \in Clients :
        /\ calls[p].pc = "done" /\ calls[p].op = "resume_mfa_login"
        /\ calls[p].noCreds /\ calls[p].pendingWas = "expired"
        /\ calls[p].result = <<"MFA_PENDING_EXPIRED">>
        /\ calls[p].user \notin DOMAIN pending

\* the step in which caller p begins resume_mfa_login for user u without a
\* usable email and password
C11_ResumeBegins(p, u) ==
    /\ calls[p].pc = "idle" /\ calls'[p].pc # "idle"
    /\ calls'[p].op = "resume_mfa_login" /\ calls'[p].user = u /\ calls'[p].noCreds

\* the resume got the credentials start_login had cached, and went on to
\* the handshake with them
C11_Obtains(p, u) ==
    /\ calls'[p].used = Given(pending[u].email, pending[u].password)
    /\ calls'[p].handshake # ""
    /\ calls'[p].result # <<"MFA_PENDING_EXPIRED">>

C11_Fails(p) ==
    /\ calls'[p].pc = "done" /\ calls'[p].result = <<"MFA_PENDING_EXPIRED">>
    /\ calls'[p].handshake = ""

\* the first such resume since the challenge finds the entry and takes it
\* out of the table (whenever it comes, or, with inTime, if it comes by the
\* expiry time and fails otherwise); a second one fails
C11_Step(inTime) ==
    \A p \in Clients, u \in Users :
        C11_ResumeBegins(p, u) =>
            /\ u \notin DOMAIN pending'
            /\ calls'[p].nth = 1 =>
                  /\ u \in DOMAIN pending
                  /\ IF inTime /\ now > pending[u].expires_at
                     THEN C11_Fails(p)
                     ELSE C11_Obtains(p, u)
            /\ calls'[p].nth = 2 => C11_Fails(p)

\* C11 as stated: a pending MFA entry is consumed exactly once: after a
\* start_login for u that returned needs_mfa, the first resume_mfa_login
\* for u without supplied credentials obtains the cached credentials and
\* removes the entry, and any second such resume, with no start_login in
\* between, fails with MFA_PENDING_EXPIRED.
C11_ConsumedExactlyOnce == [][C11_Step(FALSE)]_vars

\* C11, amended: the first resume_mfa_login for u without supplied
\* credentials obtains the cached credentials and removes the entry if it
\* comes no later than the entry's expiry time; coming later it fails with
\* MFA_PENDING_EXPIRED and removes the entry; any second such resume, with
\* no start_login in between, fails with MFA_PENDING_EXPIRED.
C11_ConsumedOnceInTime == [][C11_Step(TRUE)]_vars

\* one caller's resume took the cached credentials, the other's, the
\* second since the challenge, failed, and the table has no entry
C11_Witness ==
    \E p, q \in Clients :
        /\ calls[p].op = "resume_mfa_login" /\ calls[p].noCreds
        /\ calls[p].nth = 1 /\ calls[p].pendingWas = "live"
        /\ calls[p].used = Given(Email, Password) /\ calls[p].handshake # ""
        /\ calls[q].op = "resume_mfa_login" /\ calls[q].noCreds
        /\ calls[q].nth = 2 /\ calls[q].result = <<"MFA_PENDING_EXPIRED">>
        /\ calls[p].user = calls[q].user /\ calls[p].user \notin DOMAIN pending

\* a get_logged_in_client call that is past its token login, and the token
\* login did not give it a session
C12_NoUsableToken(c) ==
    /\ c.op = "get_logged_in_client" /\ c.pc \in {"save", "done"}
    /\ c.restore # "ok"

\* what the credential login of get_logged_in_client makes of the external
\* client's answer
C12_OutcomeOfLogin(c) ==
    CASE c.login = "ok" ->
            c.pc = "save" \/ c.result \in {<<"ok">>, <<"UNKNOWN">>}
      [] c.login = "needs_mfa" ->
            c.pc = "done" /\ c.result[Len(c.result)] = "MFA_REQUIRED"
      [] c.login \in LoginOutcomes \ {"ok", "needs_mfa"} ->
            c.pc = "done" /\ c.result = <<WrapError(c.login)>>
      [] OTHER -> FALSE

\* C12: token-restore failure is never surfaced by itself: for every
\* stored TokenBlob of user u, including one that cannot be unpacked into
\* the working area or that the external client rejects,
\* get_logged_in_client with credentials supplied proceeds to credential
\* login, and its outcome is the outcome of that credential login.
C12_RestoreFailureFallsThrough ==
    \A p \in Clients :
        (/\ C12_NoUsableToken(calls[p]) /\ calls[p].existing \in {"zip", "corrupt"}
         /\ ~calls[p].noCreds)
        => /\ calls[p].login # ""
           /\ calls[p].used = Given(Email, Password)
           /\ C12_OutcomeOfLogin(calls[p])

\* C13: when no usable token exists for the user and email or password is
\* missing, get_logged_in_client fails with the no-credentials error; no
\* external credential login is attempted and no TokenBlob is written.
C13_NoCredentials ==
    \A p \in Clients :
        (C12_NoUsableToken(calls[p]) /\ calls[p].noCreds)
        => /\ calls[p].pc = "done"
           /\ calls[p].result = <<"NO_CREDENTIALS">>
           /\ calls[p].login = "" /\ ~calls[p].wrote

\* the call came to its end with a session from a credential login or from
\* an MFA resume
C14_LoggedIn(c) ==
    /\ c.pc = "done" /\ c.result = <<"ok">>
    /\ \/ c.op = "start_login"
       \/ c.op = "resume_mfa_login"
       \/ c.op = "get_logged_in_client" /\ c.login = "ok"

\* such a call has written (whatever the store, or with a store configured)
C14_Wrote(configured) ==
    \A p \in Clients :
        (C14_LoggedIn(calls[p]) /\ (configured => env.redis)) => calls[p].wrote

\* the write of a call is its last step: with it the call returns, and the
\* store then holds for the user the blob of this login, a fresh one, in
\* place of whatever it held, and load_tokens returns it
C14_SaveStep ==
    \A p \in Clients :
        (calls'[p].wrote /\ ~calls[p].wrote) =>
            /\ calls[p].pc = "save" /\ C14_LoggedIn(calls'[p])
            /\ calls[p].blob.zip /\ calls[p].blob.n >= 1
            /\ calls[p].blob # Stored(tokens, calls[p].user)
            /\ Stored(tokens', calls[p].user) = calls[p].blob
            /\ LoadTokens(tokens', calls[p].user, env) = calls[p].blob

C15_ChallengeReachesCaller ==
    \A p \in Clients :
        (/\ calls[p].op = "get_logged_in_client" /\ calls[p].pc = "done"
         /\ calls[p].login = "needs_mfa")
        => /\ ErrorMessage(calls[p]) = <<"MFA_REQUIRED", calls[p].mfa_token>>
           /\ GarminAuthStart(calls[p]) =
                 ToolResponse("needs_mfa", calls[p].mfa_token, <<>>)

\* the call ended with an error
C16_Failed(c) == c.pc = "done" /\ c.result \notin {<<"ok">>, <<"needs_mfa">>}

\* C16: every session error is propagated to the caller as a structured
\* status with a named kind and is not thrown past the boundary: in
\* particular, when the external handshake of resume_mfa_login fails
\* (authentication rejected, connection failure or HTTP failure),
\* resume_mfa_login raises GarminAuthError with a named kind and the
\* /auth/finish endpoint returns a structured error response instead of an
\* uncaught exception.
C16_ErrorsAreStructured ==
    \A p \in Clients :
        C16_Failed(calls[p]) =>
            /\ RaisedGarminAuthError(calls[p])
            /\ calls[p].op = "resume_mfa_login" =>
                  /\ AuthFinish(calls[p]) = HttpResponse(400, "error", calls[p].result)
                  /\ calls[p].handshake \in
                        {"GarminConnectAuthenticationError",
                         "GarminConnectConnectionError", "GarthHTTPError"}
                     => calls[p].result = <<WrapError(calls[p].handshake)>>

\* a credential login of get_logged_in_client or start_login that the
\* external client failed with exception exc
C17_LoginFailedWith(c, exc) ==
    /\ c.op \in {"get_logged_in_client", "start_login"} /\ c.pc = "done"
    /\ c.login = exc

\* C17: the three failure kinds of the external client during credential
\* login (authentication rejected, connection failure, HTTP protocol
\* failure) are surfaced by get_logged_in_client and start_login as three
\* pairwise distinct named error kinds (AUTH_FAILED, CONNECTION_FAILED,
\* GARTH_HTTP_ERROR); none of them is reported under another's kind or
\* under the generic UNKNOWN kind.
C17_DistinctKinds ==
    \A p \in Clients :
        /\ C17_LoginFailedWith(calls[p], "GarminConnectAuthenticationError")
              => calls[p].result = <<"AUTH_FAILED">>
        /\ C17_LoginFailedWith(calls[p], "GarminConnectConnectionError")
              => calls[p].result = <<"CONNECTION_FAILED">>
        /\ C17_LoginFailedWith(calls[p], "GarthHTTPError")
              => calls[p].result = <<"GARTH_HTTP_ERROR">>

\* start_login failed on a connection error while get_logged_in_client
\* failed on an HTTP error, and the two carry different kinds
C17_Witness ==
    \E p, q \in Clients :
        /\ C17_LoginFailedWith(calls[p], "GarminConnectConnectionError")
        /\ calls[p].op = "start_login" /\ calls[p].result = <<"CONNECTION_FAILED">>
        /\ C17_LoginFailedWith(calls[q], "GarthHTTPError")
        /\ calls[q].op = "get_logged_in_client"
        /\ calls[q].result = <<"GARTH_HTTP_ERROR">>

\* a get_logged_in_client call for user u that had no usable stored token
\* and credentials, and logged in with them
C19_LoggedInAfresh(c, u) ==
    /\ c.op = "get_logged_in_client" /\ c.user = u /\ c.pc \in {"save", "done"}
    /\ c.restore = "rejected" /\ ~c.noCreds /\ c.login = "ok"

\* a write puts the writer's blob in the store whatever another call has
\* put there, and nothing but a write changes the blob stored for a user
C19_LaterWriteWins ==
    /\ \A p \in Clients :
          (calls[p].pc = "save" /\ calls'[p].wrote) =>
              Stored(tokens', calls[p].user) = calls[p].blob
    /\ \A u \in Users :
          Stored(tokens', u) # Stored(tokens, u) =>
              \E p \in Clients :
                  /\ calls[p].pc = "save" /\ calls[p].user = u /\ calls'[p].wrote
                  /\ Stored(tokens', u) = calls[p].blob

\* C19: no lock serializes logins of one user: two concurrent
\* get_logged_in_client calls for the same user id (no usable stored
\* token, credentials supplied) can both perform the external credential
\* login and both write a TokenBlob, and in every such interleaving the
\* blob finally stored is the one written last.
C19_NoLoginLock == [][C19_LaterWriteWins]_vars

\* both calls logged in and both wrote; the store holds the blob of the
\* earlier login, written after the blob of the later one
C19_Witness ==
    \E p, q \in Clients, u \in Users :
        /\ p # q /\ C19_LoggedInAfresh(calls[p], u) /\ C19_LoggedInAfresh(calls[q], u)
        /\ calls[p].wrote /\ calls[q].wrote
        /\ calls[p].blob = Blob(1) /\ calls[q].blob = Blob(2)
        /\ Stored(tokens, u) = Blob(1)

----------------------------------------------------------------------------
(* Claims about token persistence *)

\* the files below path, by their paths relative to it
C20_Files(fs, path) ==
    LET below == {full \in DOMAIN fs : Len(full) > Len(path)
                                       /\ SubSeq(full, 1, Len(path)) = path}
    IN  [rel \in {SubSeq(full, Len(path) + 1, Len(full)) : full \in below} |->
            fs[path \o rel]]

\* C20: round-trip of token persistence: for every working area (a finite
\* map from relative file path to file content), b64_to_dir applied to
\* zip_dir_to_b64 of that area in a fresh empty working area reproduces
\* exactly the same files with the same contents, so a session initialised
\* from the restored area is equivalent to one initialised from the
\* original.
C20_RoundTrip ==
    rt.pc = "restored" =>
        /\ C20_Files(rt.fs, DestDir) = rt.area
        /\ C20_Files(rt.fs, DestDir) = C20_Files(rt.fs, SourceDir)

\* an area of three files, two of one name in different directories, has
\* come back whole
C20_Witness ==
    /\ rt.pc = "restored"
    /\ DOMAIN rt.area = RelPaths
    /\ rt.area[<<"oauth1_token.json">>] = "a"
    /\ rt.area[<<"d", "oauth1_token.json">>] = "b"
    /\ C20_Files(rt.fs, DestDir) = rt.area

----------------------------------------------------------------------------
(* Claims about the endpoints *)

\* the request carries the five headers, a fresh timestamp, and the
\* message for this endpoint signed by the wallet of the address header
C18_Authenticated(o) ==
    /\ o.auth.present /\ o.auth.decodes /\ o.auth.tsInt
    /\ Abs(o.auth.diff) <= o.auth.tolerance
    /\ o.auth.msgPath = o.auth.path
    /\ o.auth.signed

\* Lens names an owner of the profile, and it is the wallet
C18_Owned(o) ==
    /\ ~o.own.raised /\ o.own.status_code = 200 /\ o.own.json /\ o.own.data.ok
    /\ LET d == o.own.data IN
       \E owner \in {d.account, d.address, d.ownedBy} :
          /\ Truthy(owner)
          /\ Truthy(d.account) => owner = d.account
          /\ (~Truthy(d.account) /\ Truthy(d.address)) => owner = d.address
          /\ Lower(owner) = Lower(o.address)

\* Lens has a Garmin email for the profile
C18_Resolved(o) ==
    /\ ~o.res.raised /\ o.res.status_code = 200 /\ o.res.json /\ o.res.data.ok
    /\ \E i \in DOMAIN o.res.data.attributes :
          /\ Lower(o.res.data.attributes[i].key).s \in EmailKeys
          /\ Truthy(o.res.data.attributes[i].value)

\* a request that is being served or was answered: the session function
\* is running only if the three checks passed; failed authentication was
\* answered 401, a profile of another owner 403, a profile without an
\* email 404
C18_Answers ==
    /\ api.pc = "session" =>
          /\ C18_Authenticated(api.obs) /\ C18_Owned(api.obs) /\ C18_Resolved(api.obs)
          /\ calls["c1"].pc # "idle"
    /\ api.pc # "session" => calls["c1"].pc = "idle"
    /\ api.pc = "done" =>
          /\ ~C18_Authenticated(api.obs) => api.response.code = 401
          /\ (C18_Authenticated(api.obs) /\ ~C18_Owned(api.obs)) =>
                api.response.code = 403
          /\ (C18_Authenticated(api.obs) /\ C18_Owned(api.obs)
              /\ ~C18_Resolved(api.obs)) => api.response.code = 404

\* the step that takes a request in: the store and the pending table
\* change, and a session call begins, only if the three checks pass, in
\* this order; a request that fails authentication changes nothing
C18_RequestStep ==
    (api.pc = "idle" /\ api'.pc # "idle") =>
        /\ ~C18_Authenticated(api'.obs) =>
              /\ api'.pc = "done" /\ api'.response.code = 401
              /\ tokens' = tokens /\ pending' = pending /\ calls' = calls
              /\ nextBlob' = nextBlob
        /\ (tokens' # tokens \/ pending' # pending \/ calls' # calls) =>
              /\ api'.pc = "session"
              /\ C18_Authenticated(api'.obs) /\ C18_Owned(api'.obs)
              /\ C18_Resolved(api'.obs)

\* C18: in each endpoint /auth/start, /auth/finish, /sleep and /activities,
\* session or credential logic (start_login, resume_mfa_login,
\* get_logged_in_client) runs only after verify_garmin_auth has succeeded,
\* then profile ownership has been confirmed, then the user id has been
\* resolved; a request that fails header authentication is answered 401
\* and leaves the token store and the pending-MFA table unchanged, and
\* ownership/user-resolution failures are answered with a status different
\* from 401.
C18_GatesBeforeSession == [](C18_Answers) /\ [][C18_RequestStep]_vars

\* /auth/finish has passed the three checks and resume_mfa_login has taken
\* the pending credentials of an earlier /auth/start
C18_Witness ==
    /\ api.pc = "session" /\ api.endpoint = "/auth/finish"
    /\ C18_Authenticated(api.obs) /\ C18_Owned(api.obs) /\ C18_Resolved(api.obs)
    /\ calls["c1"].op = "resume_mfa_login" /\ calls["c1"].pendingWas = "live"
    /\ calls["c1"].pc = "save"

----------------------------------------------------------------------------
(* Claims about the login state machine with two users *)

\* the table has entries for users only, and the entry of a user holds the
\* credentials of the user's latest challenged start_login
C21_EntryIsLatest ==
    /\ DOMAIN pending \subseteq AllUsers
    /\ \A u \in DOMAIN pending :
          /\ u \in DOMAIN hist.latest
          /\ Given(pending[u].email, pending[u].password) = hist.latest[u]

\* a challenged start_login for u puts its credentials and a new expiry
\* time in u's entry, whatever was there, and leaves the other entries; a
\* first resume without credentials that comes in time uses those of the
\* latest challenged start_login
C21_Step ==
    \A p \in Clients, u \in AllUsers :
        /\ (/\ calls[p].pc = "idle" /\ calls'[p].op = "start_login"
            /\ calls'[p].user = u /\ calls'[p].mfa)
           => /\ u \in DOMAIN pending'
              /\ pending'[u] = [email |-> calls'[p].used.email,
                                password |-> calls'[p].used.password,
                                expires_at |-> now + PendingTtlSeconds(env)]
              /\ \A v \in AllUsers \ {u} :
                    /\ v \in DOMAIN pending' <=> v \in DOMAIN pending
                    /\ v \in DOMAIN pending => pending'[v] = pending[v]
        /\ (/\ calls[p].pc = "idle" /\ calls'[p].op = "resume_mfa_login"
            /\ calls'[p].user = u /\ calls'[p].noCreds
            /\ calls'[p].pendingWas = "live")
           => /\ calls'[p].used = hist.latest[u]
              /\ \A v \in AllUsers \ {u} :
                    /\ v \in DOMAIN pending' <=> v \in DOMAIN pending
                    /\ v \in DOMAIN pending => pending'[v] = pending[v]

\* C21: in every reachable state the pending-MFA table holds at most one
\* entry per user id; a start_login for user u that yields an MFA challenge
\* replaces any earlier entry of u (credentials and expiry), so a following
\* resume without supplied credentials uses the credentials of the latest
\* start_login, and entries of other users are unchanged.
C21_LatestStartLoginWins == [](C21_EntryIsLatest) /\ [][C21_Step]_vars

\* u1 was challenged at second 0 and again, with other credentials, later:
\* the resume has used the later ones, and u2's entry of second 0 is there
C21_Witness ==
    /\ calls["c1"].op = "resume_mfa_login" /\ calls["c1"].user = "u1"
    /\ calls["c1"].noCreds /\ calls["c1"].pendingWas = "live"
    /\ calls["c1"].used = Given(OtherEmail, OtherPassword)
    /\ "u2" \in DOMAIN pending /\ "u1" \notin DOMAIN pending
    /\ pending["u2"].email = Email
    /\ pending["u2"].expires_at = PendingTtlSeconds(env)
    /\ now >= 1

\* the call logged in with credentials and was not challenged, or resumed a
\* login with a handshake that succeeded
C22_Succeeded(c) ==
    \/ /\ c.op = "start_login" /\ c.login = "ok"
    \/ /\ c.op = "get_logged_in_client" /\ c.restore # "ok" /\ ~c.noCreds
       /\ c.login = "ok"
    \/ /\ c.op = "resume_mfa_login" /\ c.handshake = "ok"

\* the call restored the session from its tokens, had its credential login
\* rejected, had no credentials to log in with, or failed to resume
C22_LeavesBlob(c) ==
    \/ c.op = "get_logged_in_client" /\ c.restore = "ok"
    \/ /\ c.op \in {"start_login", "get_logged_in_client"}
       /\ c.login \in LoginOutcomes \ {"ok"}
    \/ c.op = "get_logged_in_client" /\ c.result = <<"NO_CREDENTIALS">>
    \/ /\ c.op = "resume_mfa_login"
       /\ \/ c.result = <<"MFA_PENDING_EXPIRED">>
          \/ c.handshake \in ResumeOutcomes \ {"ok"}

\* a call of one of the four kinds has not written and is not about to
C22_FailuresDoNotWrite ==
    \A p \in Clients :
        C22_LeavesBlob(calls[p]) => ~calls[p].wrote /\ calls[p].pc # "save"

\* the blob of u changes only in the save_tokens of a successful login or
\* resume for u, and to the blob of that call
C22_ChangedOnlyBy ==
    \A u \in AllUsers :
        Stored(tokens', u) # Stored(tokens, u) =>
            \E p \in Clients :
                /\ calls[p].pc = "save" /\ calls[p].user = u
                /\ C22_Succeeded(calls[p])
                /\ calls'[p].pc = "done" /\ calls'[p].wrote
                /\ Stored(tokens', u) = calls[p].blob

\* C22: after any sequence of operations, the stored TokenBlob of user u
\* changes only in a step that is a successful credential login or a
\* successful MFA resume for u: a successful token restore, a credential
\* login rejected by the external client, a no-credentials failure, a
\* failed resume, and every operation on a different user id leave u's
\* blob unchanged.
C22_BlobFrame == [](C22_FailuresDoNotWrite) /\ [][C22_ChangedOnlyBy]_vars

\* a login for u2 has replaced u2's blob, and u1's is the one stored at
\* the start
C22_Witness ==
    /\ calls["c1"].pc = "done" /\ calls["c1"].user = "u2" /\ calls["c1"].wrote
    /\ C22_Succeeded(calls["c1"])
    /\ Stored(tokens, "u2") = calls["c1"].blob
    /\ Stored(tokens, "u2") # Blob(0)
    /\ Stored(tokens, "u1") = Blob(0)

----------------------------------------------------------------------------
(* Claims about the ownership check *)

\* the lookup of the owner gave nothing: a transport error or timeout, a
\* status other than 200, a body that is no JSON, or no owner field
C23_NotEstablished(r) ==
    \/ r.raised
    \/ r.status_code # 200
    \/ ~r.json
    \/ /\ ~Truthy(r.data.account) /\ ~Truthy(r.data.address)
       /\ ~Truthy(r.data.ownedBy)

\* the owner Lens returned: account.address before address before ownedBy
C23_Owner(r) ==
    IF Truthy(r.data.account) THEN r.data.account
    ELSE IF Truthy(r.data.address) THEN r.data.address
    ELSE r.data.ownedBy

\* verify_lens_profile_ownership for the request the endpoint has taken
C23_Verified(o) == VerifyLensProfileOwnership(o.address, GetProfileData(o.own))

\* the check is False in the four cases and True only for the wallet's own
\* profile; a request that passed authentication and failed the check has
\* been answered 403, and the session function runs for none
C23_Answers ==
    api.pc # "idle" =>
        /\ C23_NotEstablished(api.obs.own) => ~C23_Verified(api.obs)
        /\ C23_Verified(api.obs) =>
              /\ ~C23_NotEstablished(api.obs.own)
              /\ Lower(C23_Owner(api.obs.own)) = Lower(api.obs.address)
        /\ (C18_Authenticated(api.obs) /\ ~C23_Verified(api.obs)) =>
              /\ api.pc = "done" /\ api.response.code = 403
              /\ calls["c1"].pc = "idle"

\* the step that takes in a request that passes authentication and fails
\* the check answers it at once and leaves the session state alone
C23_RequestStep ==
    (/\ api.pc = "idle" /\ api'.pc # "idle"
     /\ C18_Authenticated(api'.obs) /\ ~C23_Verified(api'.obs))
    => /\ api'.pc = "done" /\ api'.response.code = 403
       /\ tokens' = tokens /\ pending' = pending /\ calls' = calls
       /\ nextBlob' = nextBlob /\ hist' = hist

----------------------------------------------------------------------------
(* Claims about what a failed verification leaves behind *)

\* the steps of a call before the DELETE leave the store as it is, and the
\* DELETE is taken by none but a call that then returns (True, "ok"): so a
\* call that returns a failure has changed nothing
C24_FailureStep ==
    \A p \in Procs :
        /\ (req[p].pc \in {"idle", "get"} /\ req'[p].pc # req[p].pc)
           => nonces' = nonces
        /\ (req'[p].pc = "done" /\ req[p].pc # "done" /\ req'[p].reason # "ok")
           => /\ nonces' = nonces
              /\ req[p].pc \in {"idle", "get"}
        /\ (req[p].pc = "delete" /\ req'[p].pc # "delete")
           => req'[p].pc = "done" /\ req'[p].reason = "ok"

\* a call that gets to the store with the value stored for its address
\* goes on to delete it and returns (True, "ok"), whatever failed before
C24_StillConsumable ==
    \A p \in Procs :
        /\ (/\ req[p].pc = "get" /\ req'[p].pc # "get"
            /\ req[p].addr.s \in DOMAIN nonces
            /\ nonces[req[p].addr.s].value = req[p].nonce)
           => req'[p].pc = "delete"
        /\ (req[p].pc = "delete" /\ req'[p].pc = "done")
           => req[p].addr.s \notin DOMAIN nonces'

\* C24: every verify_wallet_headers call that returns failure leaves the
\* nonce store unchanged: a request that fails an earlier check (fields,
\* address, signature, freshness, origin) or that presents a nonce value
\* different from the stored one does not delete or alter the nonce stored
\* for that address, which can still be consumed once by a later valid
\* request.
C24_FailureKeepsNonce == [][C24_FailureStep /\ C24_StillConsumable]_vars

\* two nonces were issued for the address and the call, made after the
\* second, presented the first: it failed, and the second is still stored
C24_Witness ==
    /\ req["r1"].pc = "done" /\ req["r1"].reason = "nonce_invalid"
    /\ req["r1"].stale /\ PassesEarlier(req["r1"].obs)
    /\ nextNonce = 3
    /\ req["r1"].addr.s \in DOMAIN nonces
    /\ nonces[req["r1"].addr.s].value = NonceText(2)

----------------------------------------------------------------------------
(* Claims about a resume whose handshake fails *)

\* a resume without credentials that reached the handshake, and the
\* handshake raised
C25_HandshakeFailed(c) ==
    /\ c.op = "resume_mfa_login" /\ c.noCreds
    /\ c.handshake \in ResumeOutcomes \ {"ok"}

\* no challenged start_login for u has come since a resume without
\* credentials for u
C25_NoNewStartLogin(u) == u \in DOMAIN hist.resumed /\ hist.resumed[u] # 0

\* after such a resume the user has no entry, until a start_login
C25_EntryGone ==
    \A p \in Clients :
        (C25_HandshakeFailed(calls[p]) /\ C25_NoNewStartLogin(calls[p].user))
        => /\ calls[p].user \notin DOMAIN pending
           /\ calls[p].pc = "done" /\ calls[p].result = <<calls[p].handshake>>
           /\ ~calls[p].wrote

\* the step of the resume takes the entry out although the handshake
\* fails, and the step of a retry fails without a handshake
C25_Step ==
    \A p \in Clients, u \in Users :
        (/\ calls[p].pc = "idle" /\ calls'[p].op = "resume_mfa_login"
         /\ calls'[p].user = u /\ calls'[p].noCreds)
        => /\ C25_HandshakeFailed(calls'[p])
              => /\ u \in DOMAIN pending /\ now <= pending[u].expires_at
                 /\ u \notin DOMAIN pending'
           /\ (\E q \in Clients : /\ C25_HandshakeFailed(calls[q])
                                   /\ calls[q].user = u
                                   /\ C25_NoNewStartLogin(u))
              => /\ calls'[p].pc = "done"
                 /\ calls'[p].result = <<"MFA_PENDING_EXPIRED">>
                 /\ calls'[p].handshake = ""
                 /\ pending' = pending

\* C25: resume_mfa_login removes the pending entry before it calls the
\* external handshake: when a resume without supplied credentials reaches
\* the external handshake and the handshake fails (for example a wrong MFA
\* code), the pending entry of that user is already gone, so a retry
\* without supplied credentials fails with MFA_PENDING_EXPIRED until a new
\* start_login is made.
C25_FailedHandshakeConsumes == [](C25_EntryGone) /\ [][C25_Step]_vars

\* the handshake of one caller's resume was rejected, and the retry of the
\* other caller found no entry
C25_Witness ==
    \E p, q \in Clients :
        /\ C25_HandshakeFailed(calls[q]) /\ calls[q].pendingWas = "live"
        /\ calls[q].handshake = "GarminConnectAuthenticationError"
        /\ calls[p].op = "resume_mfa_login" /\ calls[p].noCreds
        /\ calls[p].user = calls[q].user
        /\ calls[p].pendingWas = "absent" /\ calls[p].nth = 2
        /\ calls[p].result = <<"MFA_PENDING_EXPIRED">>
        /\ C25_NoNewStartLogin(calls[p].user)

----------------------------------------------------------------------------
(* Claims about replayed requests *)

\* the captured request was accepted, and the time is within the tolerance
\* of its timestamp
C26_InWindow(t) ==
    /\ captured.held /\ captured.result.ok
    /\ Abs(NowMs(t) - captured.ts.t) <= ToleranceMs(env)

\* whatever has happened since, a call with the captured headers and path
\* made now would return what the first call returned
C26_SameAnswer ==
    C26_InWindow(now) =>
        VerifyGarminAuthResult(Headers(captured.caps, captured.a, captured.p,
                                       captured.ts, captured.em, captured.sg),
                               captured.path, now, env) = captured.result

\* a call changes nothing but its own result, and each replay within the
\* tolerance returns the principal of the first call
C26_Step ==
    /\ auth' # auth => UNCHANGED <<nvars, svars, xvars>>
    /\ (captured.held /\ captured'.replays = captured.replays + 1 /\ C26_InWindow(now))
       => /\ auth'.pc = "done" /\ auth'.result.ok
          /\ auth'.result.principal = captured.result.principal

\* C26: verify_garmin_auth reads and writes no state (no nonce is
\* involved): if a call with headers H and path P succeeds at time t, then
\* every call with the same H and P at any time t' with |t' - timestamp|
\* not greater than the tolerance also succeeds and returns the same
\* principal, so a captured request can be replayed on the same path any
\* number of times within the tolerance window.
C26_ReplaySucceeds == [](C26_SameAnswer) /\ [][C26_Step]_vars

\* a request accepted at second 0 has been sent again twice, the second
\* time a second later, and was accepted with the same principal
C26_Witness ==
    /\ captured.held /\ captured.result.ok /\ captured.at = 0
    /\ captured.replays = MaxReplays /\ now >= 1
    /\ auth.pc = "done" /\ auth.result.ok
    /\ auth.result.principal = captured.result.principal
    /\ auth.obs.diff >= 1000

----------------------------------------------------------------------------
(* Claims about the MCP tools *)

\* C27: the MCP tool garmin_auth_finish(user_id, email, password,
\* mfa_token, mfa_code) completes the MFA flow with its own arguments in
\* their roles: the external client is built with the caller's email and
\* password, and the external resume handshake receives the caller's
\* mfa_token as the token and the caller's mfa_code as the code; on success
\* a TokenBlob is stored for user_id.
C27_ArgumentsInRoles ==
    tool.pc = "session" =>
        /\ calls["c1"].op = "resume_mfa_login"
        /\ calls["c1"].user = tool.given.user_id
        /\ tool.passed.mfa_token = tool.given.mfa_token
        /\ tool.passed.mfa_code = tool.given.mfa_code
        /\ (/\ calls["c1"].handshake # ""
            /\ Truthy(tool.given.email) /\ Truthy(tool.given.password))
           => calls["c1"].used = Given(tool.given.email, tool.given.password)
        /\ (calls["c1"].pc = "done" /\ calls["c1"].result = <<"ok">> /\ env.redis)
           => Stored(tokens, tool.given.user_id) = calls["c1"].blob

====
